---- MODULE Spec2Model ----
(***************************************************************************)
(* Astana (grave management): the records store of src-tauri/src/db.rs     *)
(* and the command facade of src-tauri/src/lib.rs.                         *)
(*                                                                         *)
(* The store is one SQLite file.  Every facade command opens it            *)
(* (Database::init, which runs the migration script) and then issues one   *)
(* or more statements.  The model keeps the file as the record `db`, one   *)
(* field per table, each table a set of rows; a Database_* operator is one *)
(* method of `impl Database`, taking the file and returning the file after *)
(* the call together with the method's Result; a facade command is one     *)
(* action.                                                                 *)
(*                                                                         *)
(* The migration script (migrations/001_initial.sql) is not among the      *)
(* sources; what it declares (tables, integer columns, foreign keys with   *)
(* cascade, the unique block code, AUTOINCREMENT ids, the seeded settings  *)
(* row) is modelled from the specification and kept in the definitions     *)
(* whose names start with Schema.                                          *)
(***************************************************************************)
EXTENDS Integers, Sequences, FiniteSets, TLC

VARIABLES
    db,     \* the database file: tables, rows, id sequences
    now,    \* the store's clock (CURRENT_TIMESTAMP), in seconds
    last,   \* the facade command that ran last
    result,    \* what that command returned to its caller
    issued,    \* per table, the largest id a row of the table ever had
    backup     \* the file at the backup path

vars == <<db, now, last, result, issued, backup>>

----------------------------------------------------------------------------
(* Bounds of the model *)

MaxBlocks == 2      \* block inserts in one behaviour
MaxGraves == 2      \* grave inserts in one behaviour
MaxHeirs == 4       \* heir inserts in one behaviour
MaxPayments == 2    \* payment inserts in one behaviour
MaxClock == 1       \* seconds the clock advances in one behaviour

----------------------------------------------------------------------------
(* Option<T> and Result<T, String> *)

None == <<>>
Some(x) == <<x>>
is_some(o) == o # <<>>
is_none(o) == o = <<>>
unwrap_or(o, d) == IF o = <<>> THEN d ELSE o[1]

\* Ok(v) / Err(format!("<err>: ...")): `count` is the number a message carries,
\* `cause` the store's own error the message wraps.
Ok(v) == [ok |-> TRUE, val |-> v]
Err(e, c) == [ok |-> FALSE, err |-> e, count |-> 0, cause |-> c]
ErrCount(e, n) == [ok |-> FALSE, err |-> e, count |-> n, cause |-> "none"]

\* What a Database method hands back: the file afterwards and its Result.
Out(d, r) == [db |-> d, res |-> r]

----------------------------------------------------------------------------
(* Text.  A text that a query inspects (LIKE, ORDER BY) is a sequence of   *)
(* one-character strings; any other text is an opaque string.              *)

Ord(c) ==
    CASE c = "%" -> 37
      [] c = "0" -> 48 [] c = "1" -> 49 [] c = "2" -> 50 [] c = "3" -> 51
      [] c = "4" -> 52 [] c = "5" -> 53 [] c = "6" -> 54 [] c = "7" -> 55
      [] c = "8" -> 56 [] c = "9" -> 57
      [] c = "A" -> 65 [] c = "B" -> 66
      [] c = "_" -> 95
      [] c = "a" -> 97 [] c = "b" -> 98
      [] OTHER -> 0

\* SQLite's LIKE folds ASCII letters.
Lower(c) == CASE c = "A" -> "a" [] c = "B" -> "b" [] OTHER -> c

RECURSIVE Like(_, _)
\* text LIKE pattern: % matches any run, _ any one character, letters without case
Like(pattern, text) ==
    IF pattern = <<>> THEN text = <<>>
    ELSE IF Head(pattern) = "%"
         THEN Like(Tail(pattern), text)
              \/ (text # <<>> /\ Like(pattern, Tail(text)))
    ELSE IF text = <<>> THEN FALSE
    ELSE /\ (Head(pattern) = "_" \/ Lower(Head(pattern)) = Lower(Head(text)))
         /\ Like(Tail(pattern), Tail(text))

RECURSIVE BinaryLess(_, _)
\* a < b under SQLite's BINARY collation (memcmp)
BinaryLess(a, b) ==
    IF b = <<>> THEN FALSE
    ELSE IF a = <<>> THEN TRUE
    ELSE IF Ord(Head(a)) # Ord(Head(b)) THEN Ord(Head(a)) < Ord(Head(b))
    ELSE BinaryLess(Tail(a), Tail(b))

Digit(n) == CASE n = 0 -> "0" [] n = 1 -> "1" [] n = 2 -> "2" [] n = 3 -> "3"
              [] n = 4 -> "4" [] n = 5 -> "5" [] n = 6 -> "6" [] n = 7 -> "7"
              [] n = 8 -> "8" [] n = 9 -> "9"

RECURSIVE Digits(_)
Digits(n) == IF n < 10 THEN <<Digit(n)>> ELSE Append(Digits(n \div 10), Digit(n % 10))

\* i64::to_string / i32::to_string
to_string(n) == IF n < 0 THEN <<"-">> \o Digits(0 - n) ELSE Digits(n)

RECURSIVE DigitsValue(_)
DigitsValue(s) ==
    IF s = <<>> THEN 0
    ELSE 10 * DigitsValue(SubSeq(s, 1, Len(s) - 1)) + (Ord(s[Len(s)]) - 48)

IsDigits(s) == s # <<>> /\ \A i \in 1..Len(s) : Ord(s[i]) \in 48..57

\* A text bound to, or compared with, a column of INTEGER affinity: a text that
\* is a well-formed integer becomes that integer, any other text stays text.
SchemaIntegerAffinity(v) ==
    IF IsDigits(v) THEN DigitsValue(v)
    ELSE IF Len(v) > 1 /\ Head(v) = "-" /\ IsDigits(Tail(v)) THEN 0 - DigitsValue(Tail(v))
    ELSE v

\* The rows of S as a sequence, in the strict total order `before` (the pairs
\* <<a, b>> with a before b).
OrderBy(S, before) ==
    [i \in 1..Cardinality(S) |->
        CHOOSE r \in S : Cardinality({x \in S : <<x, r>> \in before}) = i - 1]

SeqToSet(s) == {s[i] : i \in 1..Len(s)}

----------------------------------------------------------------------------
(* The schema: migrations/001_initial.sql, embedded as MIGRATION_SQL *)

SchemaTables == {"blocks", "graves", "heirs", "payments", "settings"}

\* The seeded singleton row of settings.
SchemaSettingsSeed(t) ==
    [id |-> 1, foundation_name |-> "Yayasan", address |-> "", phone |-> "",
     email |-> "", logo_path |-> "", active_year |-> 2024, last_backup |-> None,
     auto_backup |-> 0, created_at |-> t, updated_at |-> t]

\* A file nobody has opened yet.
NoFile ==
    [tables |-> {}, blocks |-> {}, graves |-> {}, heirs |-> {}, payments |-> {},
     settings |-> {},
     seq |-> [blocks |-> 0, graves |-> 0, heirs |-> 0, payments |-> 0]]

\* CREATE TABLE IF NOT EXISTS for the five tables, INSERT OR IGNORE of the seed.
SchemaMigrate(d, t) ==
    [d EXCEPT !.tables = @ \cup SchemaTables,
              !.settings = IF \E s \in @ : s.id = 1 THEN @
                           ELSE @ \cup {SchemaSettingsSeed(t)}]

\* INTEGER PRIMARY KEY AUTOINCREMENT: one more than the largest id the table
\* ever gave out.
SchemaNextId(d, table) == d.seq[table] + 1

\* blocks.code is UNIQUE.
SchemaUniqueCode(rows) == \A a, b \in rows : a.code = b.code => a.id = b.id

\* blocks.total_capacity is an integer >= 0.
SchemaCapacityCheck(rows) == \A b \in rows : b.total_capacity >= 0

\* graves.block_id REFERENCES blocks(id); heirs.grave_id and payments.grave_id
\* REFERENCE graves(id).
SchemaBlockExists(d, block_id) == \E b \in d.blocks : b.id = block_id
SchemaGraveExists(d, grave_id) == \E g \in d.graves : g.id = grave_id

\* ON DELETE CASCADE, from the graves that go to their heirs and payments.
SchemaCascadeGraves(d, gone) ==
    [d EXCEPT !.graves = {g \in @ : g.id \notin gone},
              !.heirs = {h \in @ : h.grave_id \notin gone},
              !.payments = {p \in @ : p.grave_id \notin gone}]

\* DROP TABLE by another connection to the file: the rows of the table are deleted
\* first (so the cascades run), the table and its id sequence are forgotten.
SchemaDropTables(d, gone) ==
    LET noBlocks == IF "blocks" \in gone THEN {b.id : b \in d.blocks} ELSE {}
        noGraves == {g.id : g \in {x \in d.graves :
                                     "graves" \in gone \/ x.block_id \in noBlocks}}
    IN  [d EXCEPT !.tables = @ \ gone,
                  !.blocks = {b \in @ : b.id \notin noBlocks},
                  !.graves = {g \in @ : g.id \notin noGraves},
                  !.heirs = {h \in @ : "heirs" \notin gone /\ h.grave_id \notin noGraves},
                  !.payments = {q \in @ : "payments" \notin gone
                                           /\ q.grave_id \notin noGraves},
                  !.settings = IF "settings" \in gone THEN {} ELSE @,
                  !.seq = [t \in DOMAIN @ |-> IF t \in gone THEN 0 ELSE @[t]]]

\* ON DELETE CASCADE, from the blocks that go to their graves and on.
SchemaCascadeBlocks(d, gone) ==
    SchemaCascadeGraves([d EXCEPT !.blocks = {b \in @ : b.id \notin gone}],
                        {g.id : g \in {x \in d.graves : x.block_id \in gone}})

----------------------------------------------------------------------------
(* impl Database: lifecycle *)

\* Mutant: the script seeds the settings row with INSERT OR REPLACE.
Mutant_run_migrations(d, t) ==
    Out([SchemaMigrate(d, t) EXCEPT !.settings = {SchemaSettingsSeed(t)}], Ok(TRUE))

\* Database::run_migrations
Database_run_migrations(d, t) == Out(SchemaMigrate(d, t), Ok(TRUE))

\* What the platform answers to the steps of an open: all of them work, or the
\* application data directory is unknown, or the folder cannot be created, or the
\* file cannot be opened, or the script cannot be applied.
IoAnswers == {"ok", "no app data dir", "no folder", "no file", "no script"}

\* Database::init on a platform that answers `io`: the path, the folder, the
\* connection, the migrations; the first step that fails ends the open.
Database_init_io(d, t, io) ==
    IF io = "no app data dir" THEN Out(d, Err("Failed to get app data dir", io))
    ELSE IF io = "no folder" THEN Out(d, Err("Failed to create database folder", io))
    ELSE IF io = "no file" THEN Out(d, Err("Failed to open database", io))
    ELSE IF io = "no script" THEN Out(d, Err("Failed to run migrations", io))
    ELSE Database_run_migrations(d, t)

\* Database::init: open (or create) the file, run the migrations.
Database_init(d, t) == Database_run_migrations(d, t)

\* The tables verify looks for, in the order of its loop.
VerifiedTables == <<"blocks", "graves", "heirs", "payments", "settings">>

\* The loop of verify from the i-th table on: the query on a table in `failing`
\* is an error of the store, a table that sqlite_master does not list ends the
\* loop with false.
RECURSIVE VerifyFrom(_, _, _)
VerifyFrom(d, failing, i) ==
    IF i > Len(VerifiedTables) THEN Ok(TRUE)
    ELSE IF VerifiedTables[i] \in failing
         THEN Err("Failed to verify table", VerifiedTables[i])
    ELSE IF VerifiedTables[i] \notin d.tables THEN Ok(FALSE)
    ELSE VerifyFrom(d, failing, i + 1)

\* Mutant: the loop starts at the second table.
Mutant_verify(d, failing) == VerifyFrom(d, failing, 2)

\* Database::verify
Database_verify(d, failing) == VerifyFrom(d, failing, 1)

\* page_size of the file, and its page_count: none before the first table, then
\* the schema page and one root page a table.
PageSize == 4096
PageCount(d) == IF d.tables = {} THEN 0 ELSE 1 + Cardinality(d.tables)

\* `SELECT COUNT(*) FROM table` with `.unwrap_or(0)`: a query that fails (the
\* table is not there, or the store answers with an error) counts 0.
CountOrZero(d, failing, table) ==
    IF table \notin d.tables \/ table \in failing THEN 0 ELSE Cardinality(d[table])

\* Mutant: heirs_count is counted from payments.
Mutant_get_stats(d, failing) ==
    Ok([graves_count |-> CountOrZero(d, failing, "graves"),
        heirs_count |-> CountOrZero(d, failing, "payments"),
        payments_count |-> CountOrZero(d, failing, "payments"),
        size_bytes |-> IF "size" \in failing THEN 0 ELSE PageCount(d) * PageSize])

\* Database::get_stats: the size query, too, ends in `.unwrap_or(0)`.
Database_get_stats(d, failing) ==
    Ok([graves_count |-> CountOrZero(d, failing, "graves"),
        heirs_count |-> CountOrZero(d, failing, "heirs"),
        payments_count |-> CountOrZero(d, failing, "payments"),
        size_bytes |-> IF "size" \in failing THEN 0 ELSE PageCount(d) * PageSize])

\* What the backup answers: it works, or the destination cannot be opened, or the
\* backup cannot be set up, or its one step fails.
BackupAnswers == {"ok", "no destination", "no backup", "no step"}

\* Mutant: the copy stops before the pages of payments.
Mutant_backup_to(d, dst, io) ==
    IF io = "no destination"
    THEN [db |-> d, res |-> Err("Failed to create backup file", io), backup |-> dst]
    ELSE IF io = "no backup"
    THEN [db |-> d, res |-> Err("Failed to initialize backup", io), backup |-> dst]
    ELSE IF io = "no step"
    THEN [db |-> d, res |-> Err("Failed to perform backup", io), backup |-> dst]
    ELSE [db |-> d, res |-> Ok(TRUE), backup |-> [d EXCEPT !.payments = {}]]

\* Database::backup_to: `step(-1)` copies every page of the source in one step;
\* a backup that fails leaves the destination as it was.  `dst` is the file at
\* the backup path, a file other than the store's own.
Database_backup_to(d, dst, io) ==
    IF io = "no destination"
    THEN [db |-> d, res |-> Err("Failed to create backup file", io), backup |-> dst]
    ELSE IF io = "no backup"
    THEN [db |-> d, res |-> Err("Failed to initialize backup", io), backup |-> dst]
    ELSE IF io = "no step"
    THEN [db |-> d, res |-> Err("Failed to perform backup", io), backup |-> dst]
    ELSE [db |-> d, res |-> Ok(TRUE), backup |-> d]

----------------------------------------------------------------------------
(* impl Database: blocks *)

\* COALESCE(?n, column) with an Option bound to ?n: None binds NULL.
Coalesce(param, column) == IF is_some(param) THEN param[1] ELSE column

BlockByCode(a, b) ==
    BinaryLess(a.code, b.code) \/ (a.code = b.code /\ a.id < b.id)

\* Mutant: ORDER BY id.
Mutant_get_all_blocks(d) ==
    Ok(OrderBy(d.blocks, {p \in d.blocks \X d.blocks : p[1].id < p[2].id}))

\* Database::get_all_blocks
Database_get_all_blocks(d) ==
    Ok(OrderBy(d.blocks, {p \in d.blocks \X d.blocks : BlockByCode(p[1], p[2])}))

\* Database::get_block_by_id
Database_get_block_by_id(d, id) ==
    IF \E b \in d.blocks : b.id = id
    THEN Ok(Some(CHOOSE b \in d.blocks : b.id = id))
    ELSE Ok(None)

\* Mutant: the id is one more than the number of rows of the table.
Mutant_create_block(d, block, t) ==
    LET id == Cardinality(d.blocks) + 1
        row == [id |-> id, code |-> block.code,
                description |-> unwrap_or(block.description, ""),
                total_capacity |-> block.total_capacity,
                annual_fee |-> block.annual_fee, status |-> block.status,
                created_at |-> t, updated_at |-> t]
    IN  IF ~SchemaCapacityCheck({row})
        THEN Out(d, Err("Failed to create block", "CHECK constraint failed"))
        ELSE IF ~SchemaUniqueCode(d.blocks \cup {row})
        THEN Out(d, Err("Failed to create block", "UNIQUE constraint failed"))
        ELSE Out([d EXCEPT !.blocks = @ \cup {row}, !.seq.blocks = id], Ok(id))

\* Database::create_block
Database_create_block(d, block, t) ==
    LET id == SchemaNextId(d, "blocks")
        row == [id |-> id, code |-> block.code,
                description |-> unwrap_or(block.description, ""),
                total_capacity |-> block.total_capacity,
                annual_fee |-> block.annual_fee, status |-> block.status,
                created_at |-> t, updated_at |-> t]
    IN  IF ~SchemaCapacityCheck({row})
        THEN Out(d, Err("Failed to create block", "CHECK constraint failed"))
        ELSE IF ~SchemaUniqueCode(d.blocks \cup {row})
        THEN Out(d, Err("Failed to create block", "UNIQUE constraint failed"))
        ELSE Out([d EXCEPT !.blocks = @ \cup {row}, !.seq.blocks = id], Ok(id))

\* The parameters of description and status bound the other way round.
Mutant_UpdateBlockRow(b, block) ==
    [b EXCEPT !.code = Coalesce(block.code, @),
              !.description = Coalesce(block.status, @),
              !.total_capacity = Coalesce(block.total_capacity, @),
              !.annual_fee = Coalesce(block.annual_fee, @),
              !.status = Coalesce(block.description, @)]

\* The SET list of update_block, on the row WHERE id = ?6.
UpdateBlockRow(b, block) ==
    [b EXCEPT !.code = Coalesce(block.code, @),
              !.description = Coalesce(block.description, @),
              !.total_capacity = Coalesce(block.total_capacity, @),
              !.annual_fee = Coalesce(block.annual_fee, @),
              !.status = Coalesce(block.status, @)]

\* Database::update_block
Database_update_block(d, id, block) ==
    LET rows == {IF b.id = id THEN UpdateBlockRow(b, block) ELSE b : b \in d.blocks}
    IN  IF ~SchemaCapacityCheck(rows)
        THEN Out(d, Err("Failed to update block", "CHECK constraint failed"))
        ELSE IF ~SchemaUniqueCode(rows)
        THEN Out(d, Err("Failed to update block", "UNIQUE constraint failed"))
        ELSE Out([d EXCEPT !.blocks = rows], Ok(TRUE))

\* delete_block without the check for graves
Mutant_delete_block(d, id) == Out(SchemaCascadeBlocks(d, {id}), Ok(TRUE))

\* Mutant: a DELETE that changed no row is reported as an error.
Mutant_delete_block_changes(d, id) ==
    LET grave_count == Cardinality({g \in d.graves : g.block_id = id})
    IN  IF grave_count > 0
        THEN Out(d, ErrCount("Cannot delete block", grave_count))
        ELSE IF ~\E b \in d.blocks : b.id = id
        THEN Out(d, Err("Failed to delete block", "Query returned no rows"))
        ELSE Out(SchemaCascadeBlocks(d, {id}), Ok(TRUE))

\* Database::delete_block
Database_delete_block(d, id) ==
    LET grave_count == Cardinality({g \in d.graves : g.block_id = id})
    IN  IF grave_count > 0
        THEN Out(d, ErrCount("Cannot delete block", grave_count))
        ELSE Out(SchemaCascadeBlocks(d, {id}), Ok(TRUE))

\* get_block_stats with `available` kept from going below zero
Mutant_get_block_stats(d, block_id) ==
    IF ~\E b \in d.blocks : b.id = block_id
    THEN Err("Failed to get block capacity", "Query returned no rows")
    ELSE LET total_capacity == (CHOOSE b \in d.blocks : b.id = block_id).total_capacity
             occupied == Cardinality({g \in d.graves : g.block_id = block_id})
         IN  Ok([total_capacity |-> total_capacity, occupied |-> occupied,
                 available |-> IF occupied > total_capacity THEN 0
                               ELSE total_capacity - occupied])

\* Mutant: the capacity query ends in .unwrap_or(0), as the counts of get_stats do.
Mutant_get_block_stats_or_zero(d, block_id) ==
    LET total_capacity == IF \E b \in d.blocks : b.id = block_id
                          THEN (CHOOSE b \in d.blocks : b.id = block_id).total_capacity
                          ELSE 0
        occupied == Cardinality({g \in d.graves : g.block_id = block_id})
    IN  Ok([total_capacity |-> total_capacity, occupied |-> occupied,
            available |-> total_capacity - occupied])

\* Database::get_block_stats
Database_get_block_stats(d, block_id) ==
    IF ~\E b \in d.blocks : b.id = block_id
    THEN Err("Failed to get block capacity", "Query returned no rows")
    ELSE LET total_capacity == (CHOOSE b \in d.blocks : b.id = block_id).total_capacity
             occupied == Cardinality({g \in d.graves : g.block_id = block_id})
         IN  Ok([total_capacity |-> total_capacity, occupied |-> occupied,
                 available |-> total_capacity - occupied])

----------------------------------------------------------------------------
(* impl Database: graves *)

\* WHERE 1=1 [AND (g.deceased_name LIKE ? OR g.number LIKE ?)] [AND g.block_id = ?]
\* with pattern = format!("%{}%", s): the text both get_graves and count_graves build.
GraveFilter(g, search, block_id) ==
    /\ is_some(search) =>
          LET pattern == <<"%">> \o search[1] \o <<"%">>
          IN  Like(pattern, g.deceased_name) \/ Like(pattern, g.number)
    /\ is_some(block_id) => g.block_id = block_id[1]

\* ORDER BY g.created_at DESC; rows of one second come in the order of the scan.
GraveByCreatedDesc(a, b) ==
    a.created_at > b.created_at \/ (a.created_at = b.created_at /\ a.id < b.id)

\* The limit cut from the start of the rows instead of from the offset.
Mutant_LimitOffset(rows, limit, offset) ==
    LET from == IF offset < 0 THEN 0 ELSE offset
        upto == IF limit < 0 \/ limit > Len(rows) THEN Len(rows) ELSE limit
    IN  SubSeq(rows, from + 1, upto)

\* LIMIT ? OFFSET ?: a negative limit is no limit, a negative offset is 0.
LimitOffset(rows, limit, offset) ==
    LET from == IF offset < 0 THEN 0 ELSE offset
        upto == IF limit < 0 \/ from + limit > Len(rows) THEN Len(rows) ELSE from + limit
    IN  SubSeq(rows, from + 1, upto)

\* One row of graves g JOIN blocks b ON g.block_id = b.id.
GraveWithBlock(g, b) ==
    [id |-> g.id, deceased_name |-> g.deceased_name, block_id |-> g.block_id,
     number |-> g.number, date_of_death |-> g.date_of_death,
     burial_date |-> g.burial_date, notes |-> g.notes,
     created_at |-> g.created_at, updated_at |-> g.updated_at,
     code |-> b.code, annual_fee |-> b.annual_fee]

JoinedGraves(d) ==
    {GraveWithBlock(g, CHOOSE b \in d.blocks : b.id = g.block_id) :
        g \in {x \in d.graves : \E b \in d.blocks : b.id = x.block_id}}

\* Database::get_graves
Database_get_graves(d, search, block_id, limit, offset) ==
    LET rows == {g \in JoinedGraves(d) : GraveFilter(g, search, block_id)}
        order == {p \in rows \X rows : GraveByCreatedDesc(p[1], p[2])}
    IN  Ok(LimitOffset(OrderBy(rows, order), limit, offset))

\* Database::count_graves
Database_count_graves(d, search, block_id) ==
    Ok(Cardinality({g \in d.graves : GraveFilter(g, search, block_id)}))

\* Database::create_grave
Database_create_grave(d, grave, t) ==
    LET id == SchemaNextId(d, "graves")
        row == [id |-> id, deceased_name |-> grave.deceased_name,
                block_id |-> grave.block_id, number |-> grave.number,
                date_of_death |-> grave.date_of_death,
                burial_date |-> unwrap_or(grave.burial_date, ""),
                notes |-> unwrap_or(grave.notes, ""),
                created_at |-> t, updated_at |-> t]
    IN  IF ~SchemaBlockExists(d, grave.block_id)
        THEN Out(d, Err("Failed to create grave", "FOREIGN KEY constraint failed"))
        ELSE Out([d EXCEPT !.graves = @ \cup {row}, !.seq.graves = id], Ok(id))

\* Database::get_grave_by_id
Database_get_grave_by_id(d, id) ==
    IF \E g \in JoinedGraves(d) : g.id = id
    THEN Ok(Some(CHOOSE g \in JoinedGraves(d) : g.id = id))
    ELSE Ok(None)

\* block_id is bound as text (v.to_string()); the column's affinity makes it the
\* integer again.
UpdateGraveRow(g, grave) ==
    [g EXCEPT !.deceased_name = Coalesce(grave.deceased_name, @),
              !.block_id = IF is_some(grave.block_id)
                           THEN SchemaIntegerAffinity(to_string(grave.block_id[1]))
                           ELSE @,
              !.number = Coalesce(grave.number, @),
              !.date_of_death = Coalesce(grave.date_of_death, @),
              !.burial_date = Coalesce(grave.burial_date, @),
              !.notes = Coalesce(grave.notes, @)]

\* Mutant: the UPDATE runs with the foreign keys not enforced.
Mutant_update_grave(d, id, grave) ==
    Out([d EXCEPT !.graves = {IF g.id = id THEN UpdateGraveRow(g, grave) ELSE g : g \in @}],
        Ok(TRUE))

\* Database::update_grave
Database_update_grave(d, id, grave) ==
    LET rows == {IF g.id = id THEN UpdateGraveRow(g, grave) ELSE g : g \in d.graves}
    IN  IF \E g \in rows : ~SchemaBlockExists(d, g.block_id)
        THEN Out(d, Err("Failed to update grave", "FOREIGN KEY constraint failed"))
        ELSE Out([d EXCEPT !.graves = rows], Ok(TRUE))

\* DELETE FROM heirs WHERE id = ?1, the statement of delete_heir
Mutant_delete_grave(d, id) ==
    Out([d EXCEPT !.heirs = {h \in @ : h.id # id}], Ok(TRUE))

\* Database::delete_grave
Database_delete_grave(d, id) == Out(SchemaCascadeGraves(d, {id}), Ok(TRUE))

----------------------------------------------------------------------------
(* impl Database: heirs *)

HeirByOrder(a, b) ==
    a.order_number < b.order_number \/ (a.order_number = b.order_number /\ a.id < b.id)

\* Heir, as the row mapper reads it: is_primary is read as a bool.
HeirOf(h) == [h EXCEPT !.is_primary = (@ # 0)]

\* Database::get_heirs_by_grave
Database_get_heirs_by_grave(d, grave_id) ==
    LET found == {h \in d.heirs : h.grave_id = grave_id}
        rows == OrderBy(found, {p \in found \X found : HeirByOrder(p[1], p[2])})
    IN  Ok([i \in 1..Len(rows) |-> HeirOf(rows[i])])

\* Database::create_heir
Database_create_heir(d, heir, t) ==
    LET id == SchemaNextId(d, "heirs")
        row == [id |-> id, grave_id |-> heir.grave_id,
                order_number |-> heir.order_number, full_name |-> heir.full_name,
                phone_number |-> unwrap_or(heir.phone_number, ""),
                relationship |-> unwrap_or(heir.relationship, ""),
                address |-> unwrap_or(heir.address, ""),
                is_primary |-> IF heir.is_primary THEN 1 ELSE 0,
                created_at |-> t, updated_at |-> t]
    IN  IF ~SchemaGraveExists(d, heir.grave_id)
        THEN Out(d, Err("Failed to create heir", "FOREIGN KEY constraint failed"))
        ELSE Out([d EXCEPT !.heirs = @ \cup {row}, !.seq.heirs = id], Ok(id))

\* Database::get_heir_by_id
Database_get_heir_by_id(d, id) ==
    IF \E h \in d.heirs : h.id = id
    THEN Ok(Some(HeirOf(CHOOSE h \in d.heirs : h.id = id)))
    ELSE Ok(None)

\* Mutant: is_primary is bound as unwrap_or(false), so a request that leaves it
\* unset clears the flag.
Mutant_UpdateHeirRow(h, heir) ==
    [h EXCEPT !.full_name = Coalesce(heir.full_name, @),
              !.phone_number = Coalesce(heir.phone_number, @),
              !.relationship = Coalesce(heir.relationship, @),
              !.address = Coalesce(heir.address, @),
              !.is_primary = IF is_some(heir.is_primary) /\ heir.is_primary[1]
                             THEN 1 ELSE 0]

\* is_primary is bound as the text "1" or "0"; the column's affinity makes it 1 or 0.
UpdateHeirRow(h, heir) ==
    [h EXCEPT !.full_name = Coalesce(heir.full_name, @),
              !.phone_number = Coalesce(heir.phone_number, @),
              !.relationship = Coalesce(heir.relationship, @),
              !.address = Coalesce(heir.address, @),
              !.is_primary = IF is_some(heir.is_primary)
                             THEN SchemaIntegerAffinity(
                                      IF heir.is_primary[1] THEN <<"1">> ELSE <<"0">>)
                             ELSE @]

\* Mutant: an id that no heir has is reported.
Mutant_update_heir(d, id, heir) ==
    IF ~\E h \in d.heirs : h.id = id
    THEN Out(d, Err("Failed to update heir", "Query returned no rows"))
    ELSE Out([d EXCEPT !.heirs = {IF h.id = id THEN UpdateHeirRow(h, heir) ELSE h : h \in @}],
             Ok(TRUE))

\* Database::update_heir
Database_update_heir(d, id, heir) ==
    Out([d EXCEPT !.heirs = {IF h.id = id THEN UpdateHeirRow(h, heir) ELSE h : h \in @}],
        Ok(TRUE))

\* Database::delete_heir
Database_delete_heir(d, id) ==
    Out([d EXCEPT !.heirs = {h \in @ : h.id # id}], Ok(TRUE))

\* Database::delete_heirs_by_grave
Database_delete_heirs_by_grave(d, grave_id) ==
    Out([d EXCEPT !.heirs = {h \in @ : h.grave_id # grave_id}], Ok(TRUE))

----------------------------------------------------------------------------
(* impl Database: payments *)

PaymentByYearDesc(a, b) == a.year > b.year \/ (a.year = b.year /\ a.id < b.id)

\* Database::get_payments_by_grave
Database_get_payments_by_grave(d, grave_id) ==
    LET rows == {p \in d.payments : p.grave_id = grave_id}
    IN  Ok(OrderBy(rows, {p \in rows \X rows : PaymentByYearDesc(p[1], p[2])}))

\* get_payment_by_grave_and_year that does not look at the year
Mutant_get_payment_by_grave_and_year(d, grave_id, year) ==
    LET rows == {p \in d.payments : p.grave_id = grave_id}
    IN  IF rows = {} THEN Ok(None)
        ELSE Ok(Some(CHOOSE p \in rows : \A q \in rows : p.id <= q.id))

\* Database::get_payment_by_grave_and_year: both parameters are bound as text
\* (to_string()) and compared with integer columns; query_row takes the first row.
Database_get_payment_by_grave_and_year(d, grave_id, year) ==
    LET rows == {p \in d.payments :
                    /\ p.grave_id = SchemaIntegerAffinity(to_string(grave_id))
                    /\ p.year = SchemaIntegerAffinity(to_string(year))}
    IN  IF rows = {} THEN Ok(None)
        ELSE Ok(Some(CHOOSE p \in rows : \A q \in rows : p.id <= q.id))

\* Database::create_payment
Database_create_payment(d, payment, t) ==
    LET id == SchemaNextId(d, "payments")
        row == [id |-> id, grave_id |-> payment.grave_id, year |-> payment.year,
                payment_date |-> payment.payment_date, amount |-> payment.amount,
                payment_method |-> unwrap_or(payment.payment_method, "cash"),
                payment_proof |-> unwrap_or(payment.payment_proof, ""),
                paid_by |-> unwrap_or(payment.paid_by, ""),
                notes |-> unwrap_or(payment.notes, ""),
                created_at |-> t, updated_at |-> t]
    IN  IF ~SchemaGraveExists(d, payment.grave_id)
        THEN Out(d, Err("Failed to create payment", "FOREIGN KEY constraint failed"))
        ELSE Out([d EXCEPT !.payments = @ \cup {row}, !.seq.payments = id], Ok(id))

\* Database::delete_payment (lib.rs calls it; db.rs as given does not hold it)
Database_delete_payment(d, id) ==
    Out([d EXCEPT !.payments = {p \in @ : p.id # id}], Ok(TRUE))

----------------------------------------------------------------------------
(* impl Database: settings *)

\* Settings, as the row mapper reads it: auto_backup is read as i64 != 0.
SettingsOf(s) == [s EXCEPT !.auto_backup = (@ # 0)]

\* Mutant: a missing row reads as the default settings.
Mutant_get_settings(d) ==
    IF \E s \in d.settings : s.id = 1
    THEN Ok(SettingsOf(CHOOSE s \in d.settings : s.id = 1))
    ELSE Ok(SettingsOf(SchemaSettingsSeed(0)))

\* Database::get_settings
Database_get_settings(d) ==
    IF \E s \in d.settings : s.id = 1
    THEN Ok(SettingsOf(CHOOSE s \in d.settings : s.id = 1))
    ELSE Err("Failed to get settings", "Query returned no rows")

\* active_year and auto_backup are bound as text; the columns' affinity makes
\* them integers again.
UpdateSettingsRow(s, settings) ==
    [s EXCEPT !.foundation_name = Coalesce(settings.foundation_name, @),
              !.address = Coalesce(settings.address, @),
              !.phone = Coalesce(settings.phone, @),
              !.email = Coalesce(settings.email, @),
              !.logo_path = Coalesce(settings.logo_path, @),
              !.active_year = IF is_some(settings.active_year)
                              THEN SchemaIntegerAffinity(to_string(settings.active_year[1]))
                              ELSE @,
              !.auto_backup = IF is_some(settings.auto_backup)
                              THEN SchemaIntegerAffinity(
                                       IF settings.auto_backup[1] THEN <<"1">> ELSE <<"0">>)
                              ELSE @]

\* Database::update_settings
Database_update_settings(d, settings) ==
    Out([d EXCEPT !.settings =
            {IF s.id = 1 THEN UpdateSettingsRow(s, settings) ELSE s : s \in @}],
        Ok(TRUE))

\* Database::update_last_backup
Database_update_last_backup(d, t) ==
    Out([d EXCEPT !.settings =
            {IF s.id = 1 THEN [s EXCEPT !.last_backup = Some(t)] ELSE s : s \in @}],
        Ok(TRUE))

----------------------------------------------------------------------------
(* lib.rs: the command facade.  Every command opens the store first         *)
(* (`db::Database::init(&app_handle)?`) and works on what the open left.    *)

\* `db::Database::init(&app_handle)`, the first statement of every command: the
\* store as the open leaves it, and the Result of the open.
Opened == Database_init(db, now)

\* The `?` on the open: an error of the open is what the command returns, otherwise
\* the command's own work on the opened store.
Try(init, out) == IF ~init.res.ok THEN init ELSE out

\* Work that only reads.
Read(d, r) == Out(d, r)

\* The largest id among the rows, 0 when there is none.
LargestId(rows) ==
    IF rows = {} THEN 0 ELSE CHOOSE n \in {r.id : r \in rows} : \A r \in rows : r.id <= n

\* The ids on record once the file is as d.
IssuedWith(ids, d) ==
    [t \in DOMAIN ids |-> IF LargestId(d[t]) > ids[t] THEN LargestId(d[t]) ELSE ids[t]]

\* The command ends: the file is as out.db, the caller gets out.res.
Reply(out) ==
    /\ db' = out.db
    /\ result' = out.res
    /\ issued' = IssuedWith(issued, out.db)
    /\ UNCHANGED <<now, backup>>

get_blocks ==
    LET out == Try(Opened, Read(Opened.db, Database_get_all_blocks(Opened.db)))
    IN  /\ last' = "get_blocks"
        /\ Reply(out)

get_block_by_id(id) ==
    LET out == Try(Opened, Read(Opened.db, Database_get_block_by_id(Opened.db, id)))
    IN  /\ last' = "get_block_by_id"
        /\ Reply(out)

create_block(block) ==
    LET out == Try(Opened, Database_create_block(Opened.db, block, now))
    IN  /\ last' = "create_block"
        /\ Reply(out)

update_block(id, block) ==
    LET out == Try(Opened, Database_update_block(Opened.db, id, block))
    IN  /\ last' = "update_block"
        /\ Reply(out)

delete_block(id) ==
    LET out == Try(Opened, Database_delete_block(Opened.db, id))
    IN  /\ last' = "delete_block"
        /\ Reply(out)

get_block_stats(block_id) ==
    LET out == Try(Opened, Read(Opened.db, Database_get_block_stats(Opened.db, block_id)))
    IN  /\ last' = "get_block_stats"
        /\ Reply(out)

get_graves(search, block_id, limit, offset) ==
    LET out == Try(Opened,
                   Read(Opened.db, Database_get_graves(Opened.db, search, block_id, limit, offset)))
    IN  /\ last' = "get_graves"
        /\ Reply(out)

count_graves(search, block_id) ==
    LET out == Try(Opened, Read(Opened.db, Database_count_graves(Opened.db, search, block_id)))
    IN  /\ last' = "count_graves"
        /\ Reply(out)

get_grave_by_id(id) ==
    LET out == Try(Opened, Read(Opened.db, Database_get_grave_by_id(Opened.db, id)))
    IN  /\ last' = "get_grave_by_id"
        /\ Reply(out)

RECURSIVE Mutant_CreateHeirs(_, _, _, _)
\* The loop without `heir.grave_id = grave_id`.
Mutant_CreateHeirs(d, heirs, grave_id, t) ==
    IF heirs = <<>> THEN Out(d, Ok(TRUE))
    ELSE LET out == Database_create_heir(d, Head(heirs), t)
         IN  IF ~out.res.ok THEN out
             ELSE Mutant_CreateHeirs(out.db, Tail(heirs), grave_id, t)

RECURSIVE CreateHeirs(_, _, _, _)
\* for mut heir in heirs { heir.grave_id = grave_id; db.create_heir(&heir)?; }
CreateHeirs(d, heirs, grave_id, t) ==
    IF heirs = <<>> THEN Out(d, Ok(TRUE))
    ELSE LET heir == [Head(heirs) EXCEPT !.grave_id = grave_id]
             out == Database_create_heir(d, heir, t)
         IN  IF ~out.res.ok THEN out
             ELSE CreateHeirs(out.db, Tail(heirs), grave_id, t)

\* The body of create_grave_with_heirs.
CreateGraveWithHeirs(d, request, t) ==
    LET grave == Database_create_grave(d, request.grave, t)
    IN  IF ~grave.res.ok THEN grave
        ELSE LET grave_id == grave.res.val
                 heirs == CreateHeirs(grave.db, request.heirs, grave_id, t)
             IN  IF ~heirs.res.ok THEN heirs ELSE Out(heirs.db, Ok(grave_id))

create_grave_with_heirs(request) ==
    LET out == Try(Opened, CreateGraveWithHeirs(Opened.db, request, now))
    IN  /\ last' = "create_grave_with_heirs"
        /\ Reply(out)

update_grave(id, grave) ==
    LET out == Try(Opened, Database_update_grave(Opened.db, id, grave))
    IN  /\ last' = "update_grave"
        /\ Reply(out)

delete_grave(id) ==
    LET out == Try(Opened, Database_delete_grave(Opened.db, id))
    IN  /\ last' = "delete_grave"
        /\ Reply(out)

get_heirs_by_grave(grave_id) ==
    LET out == Try(Opened, Read(Opened.db, Database_get_heirs_by_grave(Opened.db, grave_id)))
    IN  /\ last' = "get_heirs_by_grave"
        /\ Reply(out)

create_heir(heir) ==
    LET out == Try(Opened, Database_create_heir(Opened.db, heir, now))
    IN  /\ last' = "create_heir"
        /\ Reply(out)

update_heir(id, heir) ==
    LET out == Try(Opened, Database_update_heir(Opened.db, id, heir))
    IN  /\ last' = "update_heir"
        /\ Reply(out)

delete_heir(id) ==
    LET out == Try(Opened, Database_delete_heir(Opened.db, id))
    IN  /\ last' = "delete_heir"
        /\ Reply(out)

\* The new heirs added to the ones the grave has.
Mutant_UpdateGraveHeirs(d, grave_id, heirs, t) == CreateHeirs(d, heirs, grave_id, t)

\* The body of update_grave_heirs.
UpdateGraveHeirs(d, grave_id, heirs, t) ==
    LET gone == Database_delete_heirs_by_grave(d, grave_id)
    IN  IF ~gone.res.ok THEN gone
        ELSE CreateHeirs(gone.db, heirs, grave_id, t)

update_grave_heirs(grave_id, heirs) ==
    LET out == Try(Opened, UpdateGraveHeirs(Opened.db, grave_id, heirs, now))
    IN  /\ last' = "update_grave_heirs"
        /\ Reply(out)

\* The commands of two and more statements on a store that answers one of them
\* with an error (disk full, I/O error, a lock another connection holds):
\* `failing` is the ordinal of that statement among those the command sends, 0
\* when every statement is answered.  A statement answered with an error writes
\* nothing; the statements before it were committed one by one, as the commands
\* open no transaction.
StoreError == "disk I/O error"

RECURSIVE CreateHeirsIo(_, _, _, _, _)
\* for mut heir in heirs { heir.grave_id = grave_id; db.create_heir(&heir)?; }
CreateHeirsIo(d, heirs, grave_id, t, failing) ==
    IF heirs = <<>> THEN Out(d, Ok(TRUE))
    ELSE LET heir == [Head(heirs) EXCEPT !.grave_id = grave_id]
             out == IF failing = 1
                    THEN Out(d, Err("Failed to create heir", StoreError))
                    ELSE Database_create_heir(d, heir, t)
         IN  IF ~out.res.ok THEN out
             ELSE CreateHeirsIo(out.db, Tail(heirs), grave_id, t, failing - 1)

\* Mutant: the statements run in one transaction, rolled back on an error.
Mutant_UpdateGraveHeirsIo(d, grave_id, heirs, t, failing) ==
    LET gone == IF failing = 1
                THEN Out(d, Err("Failed to delete heirs", StoreError))
                ELSE Database_delete_heirs_by_grave(d, grave_id)
        out == IF ~gone.res.ok THEN gone
               ELSE CreateHeirsIo(gone.db, heirs, grave_id, t, failing - 1)
    IN  IF ~out.res.ok THEN Out(d, out.res) ELSE out

\* The body of update_grave_heirs: statement 1 is the DELETE, statement k + 1 the
\* INSERT of the k-th heir.
UpdateGraveHeirsIo(d, grave_id, heirs, t, failing) ==
    LET gone == IF failing = 1
                THEN Out(d, Err("Failed to delete heirs", StoreError))
                ELSE Database_delete_heirs_by_grave(d, grave_id)
    IN  IF ~gone.res.ok THEN gone
        ELSE CreateHeirsIo(gone.db, heirs, grave_id, t, failing - 1)

update_grave_heirs_io(grave_id, heirs, failing) ==
    LET out == Try(Opened, UpdateGraveHeirsIo(Opened.db, grave_id, heirs, now, failing))
    IN  /\ last' = "update_grave_heirs"
        /\ Reply(out)

\* Mutant: the statements run in one transaction, rolled back on an error.
Mutant_CreateGraveWithHeirsIo(d, request, t, failing) ==
    LET grave == IF failing = 1
                 THEN Out(d, Err("Failed to create grave", StoreError))
                 ELSE Database_create_grave(d, request.grave, t)
    IN  IF ~grave.res.ok THEN grave
        ELSE LET grave_id == grave.res.val
                 heirs == CreateHeirsIo(grave.db, request.heirs, grave_id, t, failing - 1)
             IN  IF ~heirs.res.ok THEN Out(d, heirs.res) ELSE Out(heirs.db, Ok(grave_id))

\* The body of create_grave_with_heirs: statement 1 is the INSERT of the grave,
\* statement k + 1 the INSERT of the k-th heir.
CreateGraveWithHeirsIo(d, request, t, failing) ==
    LET grave == IF failing = 1
                 THEN Out(d, Err("Failed to create grave", StoreError))
                 ELSE Database_create_grave(d, request.grave, t)
    IN  IF ~grave.res.ok THEN grave
        ELSE LET grave_id == grave.res.val
                 heirs == CreateHeirsIo(grave.db, request.heirs, grave_id, t, failing - 1)
             IN  IF ~heirs.res.ok THEN heirs ELSE Out(heirs.db, Ok(grave_id))

create_grave_with_heirs_io(request, failing) ==
    LET out == Try(Opened, CreateGraveWithHeirsIo(Opened.db, request, now, failing))
    IN  /\ last' = "create_grave_with_heirs"
        /\ Reply(out)

\* The body of get_grave_detail.
GetGraveDetail(d, id) ==
    LET grave == Database_get_grave_by_id(d, id)
    IN  IF is_none(grave.val) THEN Ok(None)
        ELSE Ok(Some([grave |-> grave.val[1],
                      heirs |-> Database_get_heirs_by_grave(d, id).val]))

get_grave_detail(id) ==
    LET out == Try(Opened, Read(Opened.db, GetGraveDetail(Opened.db, id)))
    IN  /\ last' = "get_grave_detail"
        /\ Reply(out)

get_payments_by_grave(grave_id) ==
    LET out == Try(Opened, Read(Opened.db, Database_get_payments_by_grave(Opened.db, grave_id)))
    IN  /\ last' = "get_payments_by_grave"
        /\ Reply(out)

get_payment_by_grave_and_year(grave_id, year) ==
    LET out == Try(Opened,
                   Read(Opened.db, Database_get_payment_by_grave_and_year(Opened.db, grave_id, year)))
    IN  /\ last' = "get_payment_by_grave_and_year"
        /\ Reply(out)

create_payment(payment) ==
    LET out == Try(Opened, Database_create_payment(Opened.db, payment, now))
    IN  /\ last' = "create_payment"
        /\ Reply(out)

\* The body of update_payment: "Use create payment request as update
\* (simplified)"; `id` is not used.
UpdatePayment(d, id, payment, t) ==
    LET out == Database_create_payment(d, payment, t)
    IN  IF ~out.res.ok THEN out ELSE Out(out.db, Ok(TRUE))

update_payment(id, payment) ==
    LET out == Try(Opened, UpdatePayment(Opened.db, id, payment, now))
    IN  /\ last' = "update_payment"
        /\ Reply(out)

delete_payment(id) ==
    LET out == Try(Opened, Database_delete_payment(Opened.db, id))
    IN  /\ last' = "delete_payment"
        /\ Reply(out)

\* The settings commands of the command surface: the store is opened as for every
\* command, then Database::get_settings or Database::update_settings does the work.
get_settings ==
    LET out == Try(Opened, Read(Opened.db, Database_get_settings(Opened.db)))
    IN  /\ last' = "get_settings"
        /\ Reply(out)

update_settings(settings) ==
    LET out == Try(Opened, Database_update_settings(Opened.db, settings))
    IN  /\ last' = "update_settings"
        /\ Reply(out)

\* Database::get_all_graves_with_heirs: every grave the filter matches, each with
\* its heirs and all its payments.
Database_get_all_graves_with_heirs(d, search, block_id) ==
    LET rows == {g \in JoinedGraves(d) : GraveFilter(g, search, block_id)}
        graves == OrderBy(rows, {p \in rows \X rows : GraveByCreatedDesc(p[1], p[2])})
    IN  Ok([i \in 1..Len(graves) |->
               [grave |-> graves[i],
                heirs |-> Database_get_heirs_by_grave(d, graves[i].id).val,
                payments |-> Database_get_payments_by_grave(d, graves[i].id).val]])

\* `for grave in &graves { for payment in &grave.payments { years.push(..) } }`
RECURSIVE PaymentYears(_)
PaymentYears(graves) ==
    IF graves = <<>> THEN <<>>
    ELSE [i \in 1..Len(Head(graves).payments) |-> Head(graves).payments[i].year]
         \o PaymentYears(Tail(graves))

\* `years.sort_unstable()`: y goes in before the first year that is not smaller.
RECURSIVE Inserted(_, _)
Inserted(y, years) ==
    IF years = <<>> THEN <<y>>
    ELSE IF y <= Head(years) THEN <<y>> \o years
    ELSE <<Head(years)>> \o Inserted(y, Tail(years))

RECURSIVE sort_unstable(_)
sort_unstable(years) ==
    IF years = <<>> THEN <<>> ELSE Inserted(Head(years), sort_unstable(Tail(years)))

\* `years.dedup()`: of equal neighbours the first stays.
RECURSIVE dedup(_)
dedup(years) ==
    IF Len(years) < 2 THEN years
    ELSE IF years[1] = years[2] THEN dedup(Tail(years))
    ELSE <<years[1]>> \o dedup(Tail(years))

\* Mutant: the range of the data is used only when both years are missing.
Mutant_ExportGraves(d, search, block_id, start_year, end_year) ==
    LET graves == Database_get_all_graves_with_heirs(d, search, block_id).val
        years == dedup(sort_unstable(PaymentYears(graves)))
        range == IF is_none(start_year) /\ is_none(end_year)
                 THEN IF years = <<>> THEN <<2022, 2026>>
                      ELSE <<years[1], years[Len(years)]>>
                 ELSE <<unwrap_or(start_year, 0), unwrap_or(end_year, 0)>>
    IN  Ok([graves |-> graves, start_year |-> range[1], end_year |-> range[2]])

\* The body of export_graves.
ExportGraves(d, search, block_id, start_year, end_year) ==
    LET graves == Database_get_all_graves_with_heirs(d, search, block_id).val
        years == dedup(sort_unstable(PaymentYears(graves)))
        range == IF is_none(start_year) \/ is_none(end_year)
                 THEN IF years = <<>> THEN <<2022, 2026>>
                      ELSE <<years[1], years[Len(years)]>>
                 ELSE <<start_year[1], end_year[1]>>
    IN  Ok([graves |-> graves, start_year |-> range[1], end_year |-> range[2]])

export_graves(search, block_id, start_year, end_year) ==
    LET out == Try(Opened, Read(Opened.db, ExportGraves(Opened.db, search, block_id,
                                                        start_year, end_year)))
    IN  /\ last' = "export_graves"
        /\ Reply(out)

\* The command that marks the store as backed up now.
update_last_backup ==
    LET out == Try(Opened, Database_update_last_backup(Opened.db, now))
    IN  /\ last' = "update_last_backup"
        /\ Reply(out)

\* db::get_db_stats, behind the command get_database_stats.  Between the open and
\* the queries another connection may drop the tables `gone`; the queries in
\* `failing` are answered with an error.
get_database_stats(gone, failing) ==
    LET seen == SchemaDropTables(Opened.db, gone)
        out == Try(Opened, Read(seen, Database_get_stats(seen, failing)))
    IN  /\ last' = "get_database_stats"
        /\ Reply(out)

\* db::backup_database_command, behind the command backup_database.
backup_database(io) ==
    LET out == Database_backup_to(Opened.db, backup, io)
    IN  /\ last' = "backup_database"
        /\ backup' = IF Opened.res.ok THEN out.backup ELSE backup
        /\ db' = Try(Opened, out).db
        /\ result' = Try(Opened, out).res
        /\ issued' = IssuedWith(issued, db')
        /\ UNCHANGED now

\* Mutant: the error of the open is returned with `?`.
Mutant_SetupHandler(d, t, io, gone, unverified, failing) ==
    LET init == Database_init_io(d, t, io)
        seen == SchemaDropTables(init.db, gone)
    IN  IF ~init.res.ok THEN [db |-> d, res |-> init.res, log |-> "error: init"]
        ELSE [db |-> seen, res |-> Ok(TRUE), log |-> "info: stats"]

\* The body of setup_handler: the open, verify on an opened store, get_stats on
\* a verified one; every outcome is a line of the log and the handler returns
\* Ok(()).  Between the open and verify another connection may drop the tables
\* `gone`; verify's queries in `unverified` and get_stats' queries in `failing`
\* are answered with an error.
SetupHandler(d, t, io, gone, unverified, failing) ==
    LET init == Database_init_io(d, t, io)
        seen == SchemaDropTables(init.db, gone)
        verified == Database_verify(seen, unverified)
        stats == Database_get_stats(seen, failing)
    IN  IF ~init.res.ok THEN [db |-> d, res |-> Ok(TRUE), log |-> "error: init"]
        ELSE IF ~verified.ok THEN [db |-> seen, res |-> Ok(TRUE), log |-> "error: verify"]
        ELSE IF ~verified.val THEN [db |-> seen, res |-> Ok(TRUE), log |-> "warn: tables"]
        ELSE IF ~stats.ok THEN [db |-> seen, res |-> Ok(TRUE), log |-> "warn: stats"]
        ELSE [db |-> seen, res |-> Ok(TRUE), log |-> "info: stats"]

setup_handler(io, gone, unverified, failing) ==
    LET out == SetupHandler(db, now, io, gone, unverified, failing)
    IN  /\ last' = "setup_handler"
        /\ Reply(out)

I32Max == 2147483647
I32Min == (0 - I32Max) - 1

\* a - b on i32, for 0 < b: the difference, or none when it is below i32::MIN.
checked_sub(a, b) == IF a >= I32Min + b THEN Some(a - b) ELSE None

\* a - b on i32 in a build without overflow checks: modulo 2^32.
wrapping_sub(a, b) ==
    IF a >= I32Min + b THEN a - b ELSE (I32Max - (b - 1)) + (a - I32Min)

\* payments.iter().find(|p| p.year == y)
FindYear(payments, y) ==
    LET hits == {i \in 1..Len(payments) : payments[i].year = y}
    IN  IF hits = {} THEN None
        ELSE Some(payments[CHOOSE i \in hits : \A j \in hits : i <= j])

\* for y in from..=year { recent_payments.push(YearPaymentStatus {..}) }
RecentPayments(payments, from, year) ==
    IF from > year THEN <<>>
    ELSE [i \in 1..((year - from) + 1) |->
             LET y == from + (i - 1)
                 p == FindYear(payments, y)
             IN  [year |-> y, is_paid |-> is_some(p),
                  amount |-> IF is_some(p) THEN Some(p[1].amount) ELSE None]]

GravePaymentSummary(d, grave, year, from) ==
    LET payments == Database_get_payments_by_grave(d, grave.id).val
    IN  [grave_id |-> grave.id, deceased_name |-> grave.deceased_name,
         block_code |-> grave.code, number |-> grave.number,
         annual_fee |-> grave.annual_fee,
         current_year_payment |-> FindYear(payments, year),
         recent_payments |-> RecentPayments(payments, from, year)]

\* The command's thread panicked: the caller gets no Result.
Panicked(why) == [ok |-> FALSE, err |-> "panicked", count |-> 0, cause |-> why]

\* `current_year - 4` is evaluated once per grave of the page; with overflow
\* checks (a debug build) it panics below i32::MIN, without them it wraps.
GetGravesWithPaymentSummary(d, search, block_id, year, limit, offset, overflow_checks) ==
    LET graves == Database_get_graves(d, search, block_id, limit, offset).val
    IN  IF graves # <<>> /\ overflow_checks /\ is_none(checked_sub(year, 4))
        THEN Panicked("attempt to subtract with overflow")
        ELSE Ok([i \in 1..Len(graves) |->
                    GravePaymentSummary(d, graves[i], year, wrapping_sub(year, 4))])

get_graves_with_payment_summary(search, block_id, year, limit, offset, overflow_checks) ==
    LET out == Try(Opened,
                   Read(Opened.db, GetGravesWithPaymentSummary(
                                   Opened.db, search, block_id, year, limit, offset,
                                   overflow_checks)))
    IN  /\ last' = "get_graves_with_payment_summary"
        /\ Reply(out)

\* One second passes.
Tick ==
    /\ now < MaxClock
    /\ now' = now + 1
    /\ UNCHANGED <<db, last, result, issued, backup>>

\* The store once the application has started: setup_handler has opened it.
Fresh == Database_init(NoFile, 0).db

\* No id on record.
NoneIssued == [t \in {"blocks", "graves", "heirs", "payments"} |-> 0]

\* The application has started on the file d and no backup was ever made.
Started(d) ==
    /\ db = d
    /\ now = 0
    /\ last = "setup_handler"
    /\ result = Ok(TRUE)
    /\ issued = IssuedWith(NoneIssued, d)
    /\ backup = NoFile

----------------------------------------------------------------------------
(* What the callers send *)

BlockIds == 1..MaxBlocks
GraveIds == 1..MaxGraves
HeirIds == 1..MaxHeirs
PaymentIds == 1..MaxPayments

Codes == {<<"A">>, <<"B">>}
Capacities == {0 - 1, 0, 1}
Years == {2023, 2024}

CreateBlockRequest(code, total_capacity) ==
    [code |-> code, description |-> None, total_capacity |-> total_capacity,
     annual_fee |-> 100000, status |-> "active"]

UpdateBlockRequest(code, total_capacity) ==
    [code |-> code, description |-> None, total_capacity |-> total_capacity,
     annual_fee |-> None, status |-> None]

NamedGraveRequest(deceased_name, block_id) ==
    [deceased_name |-> deceased_name, block_id |-> block_id, number |-> <<"A", "1">>,
     date_of_death |-> "2024-01-01", burial_date |-> None, notes |-> None]

CreateGraveRequest(block_id) ==
    [deceased_name |-> <<"A", "b">>, block_id |-> block_id, number |-> <<"A", "1">>,
     date_of_death |-> "2024-01-01", burial_date |-> None, notes |-> None]

UpdateGraveRequest(block_id) ==
    [deceased_name |-> None, block_id |-> block_id, number |-> None,
     date_of_death |-> None, burial_date |-> None, notes |-> None]

NamedHeirRequest(grave_id, order_number, full_name) ==
    [grave_id |-> grave_id, order_number |-> order_number, full_name |-> full_name,
     phone_number |-> None, relationship |-> None, address |-> None,
     is_primary |-> FALSE]

CreateHeirRequest(grave_id, order_number) == NamedHeirRequest(grave_id, order_number, "Ann")

PaymentRequest(grave_id, year, amount) ==
    [grave_id |-> grave_id, year |-> year, payment_date |-> "2024-03-01",
     amount |-> amount, payment_method |-> None, payment_proof |-> None,
     paid_by |-> None, notes |-> None]

CreatePaymentRequest(grave_id, year) == PaymentRequest(grave_id, year, 100000)

\* The caller's convention: look the period up, insert only when it is absent.
PeriodAbsent(payment) ==
    is_none(Database_get_payment_by_grave_and_year(db, payment.grave_id, payment.year).val)

----------------------------------------------------------------------------
(* Blocks and the graves in them, from a fresh store *)

Init ==
    Started(Fresh)

NextBlocks ==
    \/ get_blocks
    \/ \E id \in BlockIds : get_block_by_id(id)
    \/ \E code \in Codes, cap \in Capacities :
          db.seq.blocks < MaxBlocks /\ create_block(CreateBlockRequest(code, cap))
    \/ \E id \in BlockIds, code \in {None} \cup {Some(c) : c \in Codes},
          cap \in {None} \cup {Some(n) : n \in Capacities} :
          update_block(id, UpdateBlockRequest(code, cap))
    \/ \E id \in BlockIds : delete_block(id)
    \/ \E id \in BlockIds : get_block_stats(id)
    \/ \E b \in BlockIds, heirs \in {<<>>, <<CreateHeirRequest(0, 1)>>} :
          /\ db.seq.graves < MaxGraves
          /\ db.seq.heirs + Len(heirs) <= MaxHeirs
          /\ create_grave_with_heirs([grave |-> CreateGraveRequest(b), heirs |-> heirs])
    \/ \E id \in GraveIds, b \in BlockIds : update_grave(id, UpdateGraveRequest(Some(b)))
    \/ \E id \in GraveIds : delete_grave(id)
    \/ \E g \in GraveIds :
          /\ db.seq.payments < MaxPayments
          /\ PeriodAbsent(CreatePaymentRequest(g, 2024))
          /\ create_payment(CreatePaymentRequest(g, 2024))

SpecBlocks == Init /\ [][NextBlocks]_vars

\* The graves whose block_id is `id`.
GravesIn(d, id) == {g \in d.graves : g.block_id = id}

\* C1: referential delete guard.  Whenever delete_block(B) runs on a block B that
\* at least one grave references, the command returns the error "Cannot delete
\* block" carrying the number of graves that reference B, and the store is after
\* the call exactly as before it: B is still what get_block_by_id(B) returns and
\* still in the list of get_all_blocks, and every grave, heir and payment is kept.
C1_DeleteBlockGuard ==
    [][\A id \in BlockIds :
          (delete_block(id) /\ GravesIn(db, id) # {}) =>
              /\ ~result'.ok
              /\ result'.err = "Cannot delete block"
              /\ result'.count = Cardinality(GravesIn(db, id))
              /\ db' = db
              /\ \E b \in db.blocks :
                    /\ b.id = id
                    /\ Database_get_block_by_id(db', id) = Ok(Some(b))
                    /\ b \in SeqToSet(Database_get_all_blocks(db').val)
              /\ db.graves \subseteq db'.graves
              /\ db.heirs \subseteq db'.heirs
              /\ db.payments \subseteq db'.payments]_vars

\* C1 happens: delete_block was refused for a block with two graves, in a store
\* that holds heirs and payments.
C1_Witness ==
    /\ last = "delete_block"
    /\ ~result.ok
    /\ result.count = 2
    /\ db.heirs # {}
    /\ db.payments # {}

\* C6: capacity arithmetic.  For a block B of the store, get_block_stats(B)
\* returns total_capacity as stored in B, occupied as the number of graves whose
\* block_id is B, and available = total_capacity - occupied, which is below zero
\* when more graves are in the block than its capacity.
C6_CapacityArithmetic ==
    [][\A id \in BlockIds :
          (get_block_stats(id) /\ \E b \in db.blocks : b.id = id) =>
              LET b == CHOOSE x \in db.blocks : x.id = id
                  n == Cardinality(GravesIn(db, id))
              IN  /\ result'.ok
                  /\ result'.val.total_capacity = b.total_capacity
                  /\ result'.val.occupied = n
                  /\ result'.val.available = b.total_capacity - n
                  /\ (n > b.total_capacity) => result'.val.available < 0
                  /\ db' = db]_vars

\* C6 happens: the statistics of an over-occupied block were asked for.
C6_Witness ==
    /\ last = "get_block_stats"
    /\ result.ok
    /\ result.val.occupied = 2
    /\ result.val.available < 0

----------------------------------------------------------------------------
(* Payments of two graves that have an heir each *)

\* A store with the blocks A and B.
WithBlocks ==
    Database_create_block(
        Database_create_block(Fresh, CreateBlockRequest(<<"A">>, 1), 0).db,
        CreateBlockRequest(<<"B">>, 0), 0).db

\* A store with a grave in each of the two blocks.
WithGraves ==
    Database_create_grave(
        Database_create_grave(WithBlocks, NamedGraveRequest(<<"A", "b">>, 1), 0).db,
        NamedGraveRequest(<<"b">>, 2), 0).db

\* That store with an heir of each grave.
WithHeirs ==
    Database_create_heir(
        Database_create_heir(WithGraves, CreateHeirRequest(1, 1), 0).db,
        CreateHeirRequest(2, 1), 0).db

InitPayments ==
    Started(WithHeirs)

Amounts == {100000, 120000}

\* The years a summary is asked for: two ordinary ones, and the least i32.
TargetYears == {2024, 2026, I32Min}

NextPayments ==
    \/ \E g \in GraveIds, y \in Years, a \in Amounts :
          /\ db.seq.payments < MaxPayments
          /\ PeriodAbsent(PaymentRequest(g, y, a))
          /\ create_payment(PaymentRequest(g, y, a))
    \/ \E id \in PaymentIds, g \in GraveIds, y \in Years, a \in Amounts :
          /\ db.seq.payments < MaxPayments
          /\ update_payment(id, PaymentRequest(g, y, a))
    \/ \E id \in PaymentIds : delete_payment(id)
    \/ \E g \in 1..(MaxGraves + 1) : delete_grave(g)
    \/ \E g \in GraveIds : get_payments_by_grave(g)
    \/ \E g \in GraveIds, y \in Years : get_payment_by_grave_and_year(g, y)
    \/ \E search \in {None, Some(<<"a">>)}, year \in TargetYears, limit \in {1, 2},
          overflow_checks \in BOOLEAN :
          get_graves_with_payment_summary(search, None, year, limit, 0, overflow_checks)

SpecPayments == InitPayments /\ [][NextPayments]_vars

\* The payments of grave g for the year y.
PaymentsFor(d, g, y) == {p \in d.payments : p.grave_id = g /\ p.year = y}

\* C3: at most one payment per (grave_id, year).  With create_payment called for
\* a period only when the lookup of that period returned absence, and every other
\* command called freely, no two payment rows have the same grave_id and year.
C3_OnePaymentPerPeriod ==
    \A p, q \in db.payments :
        (p.grave_id = q.grave_id /\ p.year = q.year) => p.id = q.id

C9_PaymentSummary ==
    [][\A search \in {None, Some(<<"a">>)}, year \in TargetYears, limit \in {1, 2},
          overflow_checks \in BOOLEAN :
          get_graves_with_payment_summary(search, None, year, limit, 0, overflow_checks) =>
              LET graves == Database_get_graves(db, search, None, limit, 0).val
              IN  /\ result'.ok
                  /\ Len(result'.val) = Len(graves)
                  /\ \A i \in 1..Len(graves) :
                        LET entry == result'.val[i]
                        IN  /\ entry.grave_id = graves[i].id
                            /\ Len(entry.recent_payments) = 5
                            /\ \A k \in 1..5 :
                                  LET item == entry.recent_payments[k]
                                      paid == PaymentsFor(db, entry.grave_id, item.year)
                                  IN  /\ item.year = (year - 5) + k
                                      /\ item.is_paid <=> paid # {}
                                      /\ item.is_paid =>
                                            /\ is_some(item.amount)
                                            /\ \E p \in paid : p.amount = item.amount[1]
                                      /\ ~item.is_paid => item.amount = None
                            /\ is_some(entry.current_year_payment)
                                  <=> entry.recent_payments[5].is_paid
      ]_vars

----------------------------------------------------------------------------
(* Listing graves page by page *)

MaxListed == 3

InitGraves ==
    Started(WithBlocks)

Names == {<<"A">>, <<"a", "b">>}
SearchTexts == {None, Some(<<>>), Some(<<"a">>), Some(<<"b">>), Some(<<"_">>), Some(<<"z">>)}
BlockFilters == {None} \cup {Some(b) : b \in 1..(MaxBlocks + 1)}
Limits == 1..(MaxListed + 1)

NextGraves ==
    \/ Tick
    \/ \E name \in Names, b \in 1..(MaxBlocks + 1) :
          /\ db.seq.graves < MaxListed
          /\ create_grave_with_heirs([grave |-> NamedGraveRequest(name, b), heirs |-> <<>>])
    \/ \E id \in 1..MaxListed, b \in 1..(MaxBlocks + 1) :
          update_grave(id, UpdateGraveRequest(Some(b)))
    \/ \E id \in 1..MaxListed : delete_grave(id)
    \/ \E id \in BlockIds : delete_block(id)
    \/ \E search \in {None, Some(<<"b">>)}, limit \in {1, 2}, offset \in {0, 1} :
          get_graves(search, None, limit, offset)
    \/ \E search \in {None, Some(<<"b">>)}, block_id \in {None, Some(1)} :
          count_graves(search, block_id)

SpecGraves == InitGraves /\ [][NextGraves]_vars

\* get_graves for the offsets offset, offset + limit, ... as long as the offset is
\* not beyond the number of graves in the store, one page after the other.
RECURSIVE Pages(_, _, _, _, _)
Pages(d, search, block_id, limit, offset) ==
    IF offset > Cardinality(d.graves)
    THEN <<>>
    ELSE Database_get_graves(d, search, block_id, limit, offset).val
             \o Pages(d, search, block_id, limit, offset + limit)

\* C5: pagination consistency.  In every store state and for every filter
\* (search, block_id) and every limit of at least 1, the pages of get_graves at
\* the offsets 0, limit, 2*limit, ... put one after the other hold every grave
\* that satisfies the filter exactly once and nothing else, and count_graves with
\* the same filter returns the number of graves in that concatenation.
C5_PaginationConsistency ==
    \A search \in SearchTexts, block_id \in BlockFilters, limit \in Limits :
        LET all == Pages(db, search, block_id, limit, 0)
            matching == {g \in db.graves : GraveFilter(g, search, block_id)}
        IN  /\ \A g \in matching :
                  Cardinality({i \in 1..Len(all) : all[i].id = g.id}) = 1
            /\ \A i \in 1..Len(all) :
                  \E g \in matching :
                      /\ all[i].id = g.id
                      /\ all[i].deceased_name = g.deceased_name
                      /\ all[i].block_id = g.block_id
            /\ Database_count_graves(db, search, block_id) = Ok(Len(all))

\* C5 happens: the second page of one grave each was listed for the search "b",
\* which two of the three graves of the store satisfy, both created in one second.
C5_Witness ==
    /\ last = "get_graves"
    /\ Cardinality(db.graves) = 3
    /\ \E g, h \in db.graves :
          /\ g.id < h.id
          /\ g.created_at = h.created_at
          /\ {x \in db.graves : GraveFilter(x, Some(<<"b">>), None)} = {g, h}
          /\ result = Database_get_graves(db, Some(<<"b">>), None, 1, 1)
          /\ Len(result.val) = 1
          /\ result.val[1].id = h.id

----------------------------------------------------------------------------
(* The heirs of a grave, created with it and replaced as a list *)

InitHeirs ==
    Started(WithGraves)

\* The lists a caller sends: the entries name a grave that is not the target (0 is
\* no grave at all), and come out of order and with equal order numbers.
Ann == NamedHeirRequest(0, 2, "Ann")
Ben == NamedHeirRequest(2, 1, "Ben")
HeirLists == {<<>>, <<Ann>>, <<Ben>>, <<Ann, Ben>>, <<Ben, Ann>>, <<Ann, Ann>>}
GraveTargets == 1..(MaxGraves + 1)

NextHeirs ==
    \/ \E g \in GraveTargets, heirs \in HeirLists :
          /\ db.seq.heirs + Len(heirs) <= MaxHeirs
          /\ update_grave_heirs(g, heirs)
    \/ \E b \in {1, MaxBlocks + 1}, heirs \in HeirLists :
          /\ db.seq.graves <= MaxGraves
          /\ db.seq.heirs + Len(heirs) <= MaxHeirs
          /\ create_grave_with_heirs([grave |-> CreateGraveRequest(b), heirs |-> heirs])
    \/ \E g \in GraveTargets :
          /\ db.seq.heirs < MaxHeirs
          /\ create_heir(CreateHeirRequest(g, 1))
    \/ \E id \in HeirIds : delete_heir(id)
    \/ \E g \in GraveTargets : get_heirs_by_grave(g)

SpecHeirs == InitHeirs /\ [][NextHeirs]_vars

\* The heirs of grave g.
HeirsOf(d, g) == {h \in d.heirs : h.grave_id = g}

\* The place of entry i of the list when the list is ordered by order_number,
\* entries of one order number staying in list order.
Rank(heirs, i) ==
    1 + Cardinality({j \in 1..Len(heirs) :
                        \/ heirs[j].order_number < heirs[i].order_number
                        \/ heirs[j].order_number = heirs[i].order_number /\ j < i})

\* The stored heir h is the entry `heir` of a list, stored for grave g.
StoredAs(h, heir, g) ==
    /\ h.grave_id = g
    /\ h.order_number = heir.order_number
    /\ h.full_name = heir.full_name
    /\ h.phone_number = unwrap_or(heir.phone_number, "")
    /\ h.relationship = unwrap_or(heir.relationship, "")
    /\ h.address = unwrap_or(heir.address, "")
    /\ h.is_primary = heir.is_primary

\* C7: replacing the heirs of a grave.  update_grave_heirs(G, L) that succeeds
\* leaves as the heirs of G exactly the entries of L, each stored with grave_id = G
\* whatever grave_id the entry carried, and none of the heirs G had before;
\* get_heirs_by_grave(G) then returns them by ascending order_number (entries of
\* one order number in list order); the heirs of every other grave, and every
\* grave, block and payment, are as before.
C7_ReplaceHeirs ==
    [][\A g \in GraveTargets, heirs \in HeirLists :
          (update_grave_heirs(g, heirs) /\ result'.ok) =>
              LET listed == Database_get_heirs_by_grave(db', g).val
              IN  /\ Cardinality(HeirsOf(db', g)) = Len(heirs)
                  /\ \A h \in HeirsOf(db, g) : \A k \in db'.heirs : k.id # h.id
                  /\ Len(listed) = Len(heirs)
                  /\ \A i, j \in 1..Len(listed) : listed[i].id = listed[j].id => i = j
                  /\ \A i \in 1..Len(heirs) : StoredAs(listed[Rank(heirs, i)], heirs[i], g)
                  /\ \A i \in 1..(Len(listed) - 1) :
                        listed[i].order_number <= listed[i + 1].order_number
                  /\ {h \in db'.heirs : h.grave_id # g} = {h \in db.heirs : h.grave_id # g}
                  /\ db'.graves = db.graves
                  /\ db'.blocks = db.blocks
                  /\ db'.payments = db.payments]_vars

\* C7 happens: the heirs of grave 1 were replaced a second time, by a list that is
\* out of order, while grave 2 has an heir of its own.
C7_Witness ==
    /\ last = "update_grave_heirs"
    /\ result.ok
    /\ db.seq.heirs = 4
    /\ {h.id : h \in HeirsOf(db, 1)} = {3, 4}
    /\ \E h \in HeirsOf(db, 1) : h.id = 3 /\ h.order_number = 2
    /\ \E h \in HeirsOf(db, 1) : h.id = 4 /\ h.order_number = 1
    /\ Cardinality(HeirsOf(db, 2)) = 1

\* C8: a grave created with its heirs.  create_grave_with_heirs(grave, heirs) that
\* succeeds adds exactly one grave and exactly Len(heirs) heirs, returns the id of
\* the new grave, and the heir inserted i-th is entry i of the list, stored with
\* grave_id equal to the returned id whatever grave_id the caller supplied and
\* with the order_number supplied; no grave or heir that existed is changed.
C8_CreateGraveWithHeirs ==
    [][\A b \in {1, MaxBlocks + 1}, heirs \in HeirLists :
          (/\ create_grave_with_heirs([grave |-> CreateGraveRequest(b), heirs |-> heirs])
           /\ result'.ok) =>
              LET added == db'.heirs \ db.heirs
              IN  /\ db.graves \subseteq db'.graves
                  /\ Cardinality(db'.graves \ db.graves) = 1
                  /\ \A g \in db.graves : g.id # result'.val
                  /\ \A g \in db'.graves \ db.graves :
                        /\ g.id = result'.val
                        /\ g.block_id = b
                        /\ g.deceased_name = CreateGraveRequest(b).deceased_name
                  /\ db.heirs \subseteq db'.heirs
                  /\ Cardinality(added) = Len(heirs)
                  /\ \A h \in added : \A k \in db.heirs : k.id # h.id
                  /\ \A i \in 1..Len(heirs) :
                        \E h \in added :
                            /\ Cardinality({x \in added : x.id < h.id}) = i - 1
                            /\ StoredAs(HeirOf(h), heirs[i], result'.val)
                  /\ db'.blocks = db.blocks
                  /\ db'.payments = db.payments]_vars

\* C8 happens: a third grave was created with two heirs whose entries named no
\* grave and grave 2, the first with the higher order number.
C8_Witness ==
    /\ last = "create_grave_with_heirs"
    /\ result = Ok(3)
    /\ Cardinality(HeirsOf(db, 3)) = 2
    /\ \E h, k \in HeirsOf(db, 3) :
          /\ h.id < k.id
          /\ h.full_name = "Ann" /\ h.order_number = 2
          /\ k.full_name = "Ben" /\ k.order_number = 1
    /\ HeirsOf(db, 2) = {}

----------------------------------------------------------------------------
(* Deleting a grave that has heirs and payments *)

\* C2: the cascade.  After delete_grave(G) succeeds, no grave G, no heir and no
\* payment with grave_id = G is in the store, and every heir and payment of
\* another grave, every other grave and every block is exactly as before the call.
C2_CascadeOnDeleteGrave ==
    [][\A g \in GraveTargets :
          (delete_grave(g) /\ result'.ok) =>
              /\ HeirsOf(db', g) = {}
              /\ PaymentsFor(db', g, 2023) \cup PaymentsFor(db', g, 2024) = {}
              /\ \A p \in db'.payments : p.grave_id # g
              /\ db'.heirs = {h \in db.heirs : h.grave_id # g}
              /\ db'.payments = {p \in db.payments : p.grave_id # g}
              /\ db'.graves = {x \in db.graves : x.id # g}
              /\ db'.blocks = db.blocks
              /\ db'.settings = db.settings]_vars

\* C2 happens: grave 1 was deleted with its heir and its payment, and grave 2 has
\* its heir and its payment.
C2_Witness ==
    /\ last = "delete_grave"
    /\ result.ok
    /\ {x.id : x \in db.graves} = {2}
    /\ db.seq.payments = 2
    /\ {p.grave_id : p \in db.payments} = {2}
    /\ Cardinality(db.payments) = 1
    /\ {h.grave_id : h \in db.heirs} = {2}

----------------------------------------------------------------------------
(* Partial updates of a block, a grave and the settings *)

InitUpdates ==
    Started(WithGraves)

\* The values a caller sets a field to.
BlockFieldValues ==
    [code |-> {<<"A">>, <<"B">>}, description |-> {"row 7"},
     total_capacity |-> {0 - 1, 5}, annual_fee |-> {120000}, status |-> {"full"}]
GraveFieldValues ==
    [deceased_name |-> {<<"b">>}, block_id |-> 1..(MaxBlocks + 1),
     number |-> {<<"B", "2">>}, date_of_death |-> {"2024-02-02"},
     burial_date |-> {"2024-02-03"}, notes |-> {"moved"}]
SettingsFieldValues ==
    [foundation_name |-> {"Astana"}, address |-> {"Jl. 1"}, phone |-> {"021"},
     email |-> {"a@b.c"}, logo_path |-> {"logo.png"}, active_year |-> {2025},
     auto_backup |-> BOOLEAN]

\* The requests over the fields of `values`: every field unset, one field set,
\* every field set.
Partial(values) ==
    LET unset == [f \in DOMAIN values |-> None]
    IN  {unset}
        \cup UNION {{[unset EXCEPT ![f] = Some(v)] : v \in values[f]} : f \in DOMAIN values}
        \cup {[f \in DOMAIN values |-> Some(CHOOSE v \in values[f] : TRUE)]}

BlockUpdates == Partial(BlockFieldValues)
GraveUpdates == Partial(GraveFieldValues)
SettingsUpdates == Partial(SettingsFieldValues)

\* In one behaviour the caller edits records of one kind: the others are as they
\* were at the start.
NextUpdates ==
    \/ \E id \in 1..(MaxBlocks + 1), block \in BlockUpdates :
          /\ db.graves = WithGraves.graves
          /\ db.settings = WithGraves.settings
          /\ update_block(id, block)
    \/ \E id \in GraveTargets, grave \in GraveUpdates :
          /\ db.blocks = WithGraves.blocks
          /\ db.settings = WithGraves.settings
          /\ update_grave(id, grave)
    \/ \E settings \in SettingsUpdates :
          /\ db.blocks = WithGraves.blocks
          /\ db.graves = WithGraves.graves
          /\ update_settings(settings)
    \/ get_settings

SpecUpdates == InitUpdates /\ [][NextUpdates]_vars

\* Row `after` is row `before` with the fields the request sets, as the caller
\* reads them back (Shown), and with every other column as it was.
Coalesced(before, after, request, shown) ==
    /\ DOMAIN after = DOMAIN before
    /\ \A f \in DOMAIN before :
          IF f \in DOMAIN request /\ is_some(request[f])
          THEN shown[f] = request[f][1]
          ELSE after[f] = before[f]

\* The rows of a table after an update of the row `id`: the same ids, the row
\* `id` coalesced, every other row as it was.
UpdatedTable(rows, rowsAfter, id, request, shown) ==
    /\ {r.id : r \in rowsAfter} = {r.id : r \in rows}
    /\ Cardinality(rowsAfter) = Cardinality(rows)
    /\ \A r \in rows :
          IF r.id = id
          THEN \E q \in rowsAfter : q.id = id /\ Coalesced(r, q, request, shown[q])
          ELSE r \in rowsAfter

\* A table's rows as its read returns them: the stored row itself for blocks and
\* graves, the Settings struct for the settings row.
AsStored(rows) == [q \in rows |-> q]

AsSettings(rows) == [q \in rows |-> SettingsOf(q)]

\* Every table but `table`, and the id sequences, are as before the call.
OthersKept(table) ==
    /\ \A t \in SchemaTables \ {table} : db'[t] = db[t]
    /\ db'.seq = db.seq
    /\ db'.tables = db.tables

AllUnset(request) == \A f \in DOMAIN request : is_none(request[f])

\* The request with the fields of `request`, every one unset.
AllNone(request) == [f \in DOMAIN request |-> None]

----------------------------------------------------------------------------
(* The open and the commands that only read *)

\* The application has started on a file the open could not create, or on a
\* store with blocks, graves and heirs.
InitReads == Started(NoFile) \/ Started(WithHeirs)

\* The commands that only read: list, get, count, find, stats, summary, export.
ReadCommand ==
    \/ get_blocks
    \/ \E id \in 1..(MaxBlocks + 1) : get_block_by_id(id)
    \/ \E id \in {1, MaxBlocks + 1} : get_block_stats(id)
    \/ get_graves(None, None, MaxGraves, 0)
    \/ count_graves(None, Some(1))
    \/ \E id \in {1, MaxGraves + 1} : get_grave_by_id(id)
    \/ get_grave_detail(1)
    \/ get_heirs_by_grave(1)
    \/ get_payments_by_grave(1)
    \/ get_payment_by_grave_and_year(1, 2024)
    \/ \E overflow_checks \in BOOLEAN :
          get_graves_with_payment_summary(None, None, 2024, MaxGraves, 0, overflow_checks)
    \/ get_settings
    \/ get_database_stats({}, {})
    \/ export_graves(None, None, None, None)

NextReads ==
    \/ Tick
    \/ \E g \in GraveIds :
          /\ db.seq.payments < MaxPayments
          /\ create_payment(CreatePaymentRequest(g, 2024))
    \/ delete_grave(1)
    \/ ReadCommand

SpecReads == InitReads /\ [][NextReads]_vars

\* The store has been opened before: the five tables and the settings row are there.
Initialised(d) ==
    /\ SchemaTables \subseteq d.tables
    /\ \E s \in d.settings : s.id = 1

\* C11: idempotent open.  The open of an initialised store succeeds and leaves the
\* tables, the rows of every table and the id sequences as they are, so a command
\* that only reads leaves the store as it was, whenever and however often it runs.
C11_IdempotentOpen ==
    [][/\ Initialised(db) =>
             /\ Database_init(db, now).res.ok
             /\ Database_init(db, now).db = db
       /\ (Initialised(db) /\ ReadCommand) => db' = db
      ]_vars

\* C11 happens: a second after the store was set up a command that only reads has
\* opened it once more, after a payment was made, and the seeded settings row and
\* all rows are as they were.
C11_Witness ==
    /\ now = 1
    /\ last = "get_settings"
    /\ result.ok
    /\ db.settings = WithHeirs.settings
    /\ db.graves = WithHeirs.graves
    /\ db.heirs = WithHeirs.heirs
    /\ Cardinality(db.payments) = 1

----------------------------------------------------------------------------
(* The ids of the rows *)

IdTables == {"blocks", "graves", "heirs", "payments"}

NextIds ==
    \/ \E code \in Codes :
          /\ db.seq.blocks < MaxBlocks
          /\ create_block(CreateBlockRequest(code, 1))
    \/ \E b \in BlockIds, heirs \in {<<>>, <<CreateHeirRequest(0, 1)>>} :
          /\ db.seq.graves < MaxGraves
          /\ db.seq.heirs < MaxGraves
          /\ create_grave_with_heirs([grave |-> CreateGraveRequest(b), heirs |-> heirs])
    \/ \E g \in GraveIds :
          /\ db.seq.heirs < MaxGraves
          /\ create_heir(CreateHeirRequest(g, 1))
    \/ \E g \in GraveIds :
          /\ db.seq.payments < MaxPayments
          /\ create_payment(CreatePaymentRequest(g, 2024))
    \/ \E id \in BlockIds : delete_block(id)
    \/ \E id \in GraveIds : delete_grave(id)
    \/ \E id \in 1..MaxGraves : delete_heir(id)
    \/ \E id \in PaymentIds : delete_payment(id)

SpecIds == Init /\ [][NextIds]_vars

Ids(rows) == {r.id : r \in rows}

\* A create that returned Ok: the id it returned is the id of a row that was not
\* in the table before and is in it now, and is larger than every id a row of
\* the table ever had.
ReturnedNewId(table) ==
    result'.ok =>
        /\ result'.val \notin Ids(db[table])
        /\ result'.val \in Ids(db'[table])
        /\ result'.val > issued[table]

\* C12: identifiers are unique and monotonic per table.  In any sequence of
\* creates and deletes, every create returns an id that no row of the table has
\* and that is strictly greater than every id a create on the table gave out
\* before, the ids of deleted rows included; every row a command adds, the heirs
\* of a new grave too, has such an id.
C12_MonotonicIds ==
    [][/\ \A code \in Codes :
             create_block(CreateBlockRequest(code, 1)) => ReturnedNewId("blocks")
       /\ \A b \in BlockIds, heirs \in {<<>>, <<CreateHeirRequest(0, 1)>>} :
             create_grave_with_heirs([grave |-> CreateGraveRequest(b), heirs |-> heirs])
                 => ReturnedNewId("graves")
       /\ \A g \in GraveIds :
             create_heir(CreateHeirRequest(g, 1)) => ReturnedNewId("heirs")
       /\ \A g \in GraveIds :
             create_payment(CreatePaymentRequest(g, 2024)) => ReturnedNewId("payments")
       /\ \A table \in IdTables :
             /\ \A r \in db'[table] : r.id \notin Ids(db[table]) => r.id > issued[table]
             /\ \A a, b \in db'[table] : a.id = b.id => a = b
      ]_vars

\* C12 happens: block 1 was created and deleted, and the create after that
\* returned 2, the id of the only block there is.
C12_Witness ==
    /\ last = "create_block"
    /\ result = Ok(2)
    /\ Ids(db.blocks) = {2}
    /\ issued.blocks = 2

----------------------------------------------------------------------------
(* The start of the application, and the statistics of the store *)

\* run() is about to call setup_handler, on a data directory without the file or
\* with the file of an earlier run.
InitStartup ==
    /\ db \in {NoFile, WithHeirs}
    /\ now = 0
    /\ last = "run"
    /\ result = Ok(TRUE)
    /\ issued = IssuedWith(NoneIssued, db)
    /\ backup = NoFile

\* The tables another connection drops while a command is between its open and
\* its queries, and the queries the store answers with an error.
DropSets == {{}, {"heirs"}, {"settings"}, {"blocks"}}
VerifyFaults == {{}, {"heirs"}}
StatsFaults == {{}, {"payments"}, {"size"}}

NextStartup ==
    \/ \E io \in IoAnswers, gone \in DropSets, unverified \in VerifyFaults,
          failing \in StatsFaults :
          setup_handler(io, gone, unverified, failing)
    \/ \E gone \in DropSets, failing \in StatsFaults : get_database_stats(gone, failing)
    \/ \E code \in Codes :
          /\ db.seq.blocks < MaxBlocks
          /\ create_block(CreateBlockRequest(code, 1))
    \/ \E b \in BlockIds :
          /\ db.seq.graves < MaxGraves
          /\ create_grave_with_heirs([grave |-> CreateGraveRequest(b),
                                      heirs |-> <<CreateHeirRequest(0, 1)>>])
    \/ \E g \in GraveIds :
          /\ db.seq.payments < MaxPayments
          /\ create_payment(CreatePaymentRequest(g, 2024))
    \/ \E id \in GraveIds : delete_grave(id)
    \/ \E id \in 1..MaxGraves : delete_heir(id)

SpecStartup == InitStartup /\ [][NextStartup]_vars

\* C13: verify.  After an open that succeeds, on a new file or an existing one,
\* verify returns true; on any store, with its queries answered, verify returns
\* true when the five tables blocks, graves, heirs, payments and settings are all
\* there and false when one or more of them is missing.
C13_Verify ==
    /\ \A io \in IoAnswers :
          Database_init_io(db, now, io).res.ok =>
              Database_verify(Database_init_io(db, now, io).db, {}) = Ok(TRUE)
    /\ Database_verify(db, {}) = Ok(SchemaTables \subseteq db.tables)
    /\ \A present \in SUBSET SchemaTables :
          Database_verify([db EXCEPT !.tables = present], {}) = Ok(present = SchemaTables)

\* C13 happens: the application has started on a store from which another
\* connection dropped the heirs table, the only one verify does not find.
C13_Witness ==
    /\ last = "setup_handler"
    /\ db.tables = SchemaTables \ {"heirs"}
    /\ db.graves # {}
    /\ Database_verify(db, {}) = Ok(FALSE)

\* C14: stats.  After any sequence of creates, deletes and cascades, stats on an
\* opened store whose queries are answered returns graves_count, heirs_count and
\* payments_count equal to the numbers of rows of graves, heirs and payments;
\* whatever the queries are answered, no count and no size is negative.
C14_StatsCounts ==
    [][\A gone \in DropSets, failing \in StatsFaults :
          get_database_stats(gone, failing) =>
              /\ result'.ok
              /\ failing = {} =>
                    /\ result'.val.graves_count = Cardinality(db'.graves)
                    /\ result'.val.heirs_count = Cardinality(db'.heirs)
                    /\ result'.val.payments_count = Cardinality(db'.payments)
              /\ result'.val.graves_count >= 0
              /\ result'.val.heirs_count >= 0
              /\ result'.val.payments_count >= 0
              /\ result'.val.size_bytes >= 0
      ]_vars

\* C14 happens: of two graves with an heir each, one with a payment, the grave
\* with the payment was deleted, and stats counts one grave, one heir, no payment.
C14_Witness ==
    /\ last = "get_database_stats"
    /\ result.ok
    /\ result.val.graves_count = 1
    /\ result.val.heirs_count = 1
    /\ result.val.payments_count = 0
    /\ result.val.size_bytes > 0
    /\ db.seq.payments = 1
    /\ Cardinality(db.graves) = 1
    /\ Cardinality(db.heirs) = 1

\* C15 as claimed: the error policy of stats.  A row count whose query fails is
\* reported as zero and stats still succeeds; a size computation that fails makes
\* stats return an error.
C15_StatsErrorPolicy ==
    [][\A gone \in DropSets, failing \in StatsFaults :
          get_database_stats(gone, failing) =>
              /\ ("payments" \in failing) =>
                    result'.ok /\ result'.val.payments_count = 0
              /\ ("heirs" \in gone) => result'.ok /\ result'.val.heirs_count = 0
              /\ ("size" \in failing) => ~result'.ok
      ]_vars

\* C20: the start of the application never aborts on a problem of the store.
\* Whatever the open, verify and get_stats answer (the open fails, verify returns
\* false or an error, get_stats returns an error), setup_handler returns Ok, and
\* it leaves the file as it was or as the open and the other connection left it.
C20_StartupNeverAborts ==
    [][last' = "setup_handler" =>
          /\ result' = Ok(TRUE)
          /\ \/ db' = db
             \/ \E gone \in DropSets : db' = SchemaDropTables(Database_init(db, now).db, gone)
      ]_vars

\* C20 happens: the application has started although the store could not be
\* opened, the file is still not there.
C20_Witness ==
    /\ last = "setup_handler"
    /\ result = Ok(TRUE)
    /\ db = NoFile

----------------------------------------------------------------------------
(* The settings row *)

InitSettings == Started(NoFile) \/ Started(WithGraves)

\* The updates a caller sends: nothing set, the name set, the flag set.
SettingsEdits ==
    LET unset == [f \in DOMAIN SettingsFieldValues |-> None]
    IN  {unset, [unset EXCEPT !.foundation_name = Some("Astana")],
         [unset EXCEPT !.auto_backup = Some(TRUE)]}

NextSettings ==
    \/ get_settings
    \/ \E settings \in SettingsEdits : update_settings(settings)
    \/ update_last_backup
    \/ \E io \in BackupAnswers : backup_database(io)
    \/ get_database_stats({}, {})
    \/ setup_handler("ok", {}, {}, {})
    \/ \E code \in Codes :
          /\ db.seq.blocks < MaxBlocks + 1
          /\ create_block(CreateBlockRequest(code, 1))
    \/ \E id \in 1..(MaxBlocks + 1) : delete_block(id)
    \/ \E id \in GraveIds : delete_grave(id)

SpecSettings == InitSettings /\ [][NextSettings]_vars

\* The settings table holds the row with id 1 and no other row.
SettingsSingleton(d) ==
    /\ Cardinality(d.settings) = 1
    /\ \A s \in d.settings : s.id = 1

\* C16: the settings singleton.  Every command opens the store, and after it the
\* settings table holds the row with id 1 and no other, so get_settings succeeds;
\* where the row is missing (before the first open, or were it deleted)
\* Database::get_settings returns an error, not an empty or default result.
C16_SettingsSingleton ==
    [][/\ SettingsSingleton(db')
       /\ Database_get_settings(db').ok
       /\ get_settings => result'.ok
       /\ ~SettingsSingleton(db) => ~Database_get_settings(db).ok
       /\ ~Database_get_settings([db' EXCEPT !.settings = {}]).ok
      ]_vars

\* C16 happens: on a file that was not there when the application started, the
\* settings were updated and read, and the one row is the seeded row as updated.
C16_Witness ==
    /\ last = "get_settings"
    /\ result.ok
    /\ result.val.foundation_name = "Astana"
    /\ db.graves = {}
    /\ SettingsSingleton(db)

----------------------------------------------------------------------------
(* Updates of rows that are not there *)

InitMissing == Started(WithHeirs)

HeirFieldValues ==
    [full_name |-> {"Ben"}, phone_number |-> {"021"}, relationship |-> {"son"},
     address |-> {"Jl. 1"}, is_primary |-> BOOLEAN]

HeirUpdates == Partial(HeirFieldValues)

\* The ids a caller names: those of the rows created, and one more.
RowTargets == 1..(MaxGraves + 1)

\* The caller deletes rows and sends updates: any update for an id that no row
\* has, the update of one text field for a row that is there.
NextMissing ==
    \/ \E id \in RowTargets, block \in BlockUpdates :
          /\ id \in Ids(db.blocks) => block = [AllNone(block) EXCEPT !.status = Some("full")]
          /\ update_block(id, block)
    \/ \E id \in RowTargets, grave \in GraveUpdates :
          /\ id \in Ids(db.graves) => grave = [AllNone(grave) EXCEPT !.notes = Some("moved")]
          /\ update_grave(id, grave)
    \/ \E id \in RowTargets, heir \in HeirUpdates :
          /\ id \in Ids(db.heirs) => heir = [AllNone(heir) EXCEPT !.full_name = Some("Ben")]
          /\ update_heir(id, heir)
    \/ \E id \in RowTargets : delete_block(id)
    \/ \E id \in RowTargets : delete_grave(id)
    \/ \E id \in RowTargets : delete_heir(id)

SpecMissing == InitMissing /\ [][NextMissing]_vars

\* C17: the update of a missing id.  update_block, update_grave and update_heir
\* called with an id that no row of the table has return Ok and leave every row of
\* every table as it was, whatever fields the request sets: no row is created and
\* no row is changed.
C17_UpdateMissingId ==
    [][/\ \A id \in RowTargets \ Ids(db.blocks), block \in BlockUpdates :
             update_block(id, block) => result' = Ok(TRUE) /\ db' = db
       /\ \A id \in RowTargets \ Ids(db.graves), grave \in GraveUpdates :
             update_grave(id, grave) => result' = Ok(TRUE) /\ db' = db
       /\ \A id \in RowTargets \ Ids(db.heirs), heir \in HeirUpdates :
             update_heir(id, heir) => result' = Ok(TRUE) /\ db' = db
      ]_vars

\* C17 happens: both heirs were deleted, an update_heir has returned Ok, and there
\* still is no heir, while the graves are as they were.
C17_Witness ==
    /\ last = "update_heir"
    /\ result = Ok(TRUE)
    /\ db.heirs = {}
    /\ issued.heirs = 2
    /\ db.graves = WithHeirs.graves

----------------------------------------------------------------------------
(* The backup *)

InitBackup == Started(NoFile) \/ Started(WithHeirs)

NextBackup ==
    \/ \E io \in BackupAnswers : backup_database(io)
    \/ update_last_backup
    \/ \E g \in GraveIds :
          /\ db.seq.payments < MaxPayments
          /\ create_payment(CreatePaymentRequest(g, 2024))
    \/ \E id \in GraveIds : delete_grave(id)

SpecBackup == InitBackup /\ [][NextBackup]_vars

\* C18: the backup.  A backup_database that returns Ok leaves at the backup path a
\* store with exactly the rows (and tables and id sequences) the source held when
\* the backup ran, all of one state, and leaves the source as the open left it,
\* its rows unchanged; a backup that fails returns an error.
C18_BackupSnapshot ==
    [][\A io \in BackupAnswers :
          backup_database(io) =>
              /\ db' = Database_init(db, now).db
              /\ Initialised(db) => db' = db
              /\ result'.ok <=> io = "ok"
              /\ result'.ok => /\ backup' = db'
                               /\ \A t \in SchemaTables : backup'[t] = db'[t]
      ]_vars

\* C18 happens: a backup was made, the source went on (a grave was deleted with
\* its heir, a payment was made), and a second backup has replaced the first
\* with the rows the source holds now.
C18_Witness ==
    /\ last = "backup_database"
    /\ result.ok
    /\ backup = db
    /\ Cardinality(backup.graves) = 1
    /\ Cardinality(backup.heirs) = 1
    /\ Cardinality(backup.payments) = 1
    /\ \E s \in backup.settings : is_some(s.last_backup)

----------------------------------------------------------------------------
(* The export *)

InitExport == Started(WithHeirs)

\* The years a caller asks from and to (a range may end before it starts), and
\* the years of the payments made.
AskedFrom == {None, Some(2020)}
AskedTo == {None, Some(2019)}
PaidYears == {2021, 2024, 2027}

NextExport ==
    \/ \E g \in GraveIds, y \in PaidYears :
          /\ db.seq.payments < MaxPayments
          /\ create_payment(CreatePaymentRequest(g, y))
    \/ \E id \in PaymentIds : delete_payment(id)
    \/ \E search \in {None, Some(<<"a">>)}, block_id \in {None, Some(1)},
          start_year \in AskedFrom, end_year \in AskedTo :
          export_graves(search, block_id, start_year, end_year)

SpecExport == InitExport /\ [][NextExport]_vars

\* The payment years of the graves at the places of `graves`, from the store.
YearsOf(d, graves) ==
    {p.year : p \in {q \in d.payments :
                         \E i \in 1..Len(graves) : graves[i].grave.id = q.grave_id}}

\* C19: the year range of the export.  With both years supplied, export_graves
\* returns the caller's start_year and end_year; with a year missing it returns
\* the smallest and the largest year among all payments of the exported graves,
\* so start_year <= end_year, and (2022, 2026) when those graves have no payment.
\* The exported graves are the graves the filter matches.
C19_ExportYearRange ==
    [][\A search \in {None, Some(<<"a">>)}, block_id \in {None, Some(1)},
          start_year \in AskedFrom, end_year \in AskedTo :
          export_graves(search, block_id, start_year, end_year) =>
              LET years == YearsOf(db', result'.val.graves)
              IN  /\ result'.ok
                  /\ {result'.val.graves[i].grave.id : i \in 1..Len(result'.val.graves)}
                        = {g.id : g \in {x \in db'.graves : GraveFilter(x, search, block_id)}}
                  /\ IF is_some(start_year) /\ is_some(end_year)
                     THEN /\ result'.val.start_year = start_year[1]
                          /\ result'.val.end_year = end_year[1]
                     ELSE IF years = {}
                     THEN /\ result'.val.start_year = 2022
                          /\ result'.val.end_year = 2026
                     ELSE /\ result'.val.start_year \in years
                          /\ result'.val.end_year \in years
                          /\ \A y \in years : /\ result'.val.start_year <= y
                                               /\ y <= result'.val.end_year
                          /\ result'.val.start_year <= result'.val.end_year
      ]_vars

\* C19 happens: an export of both graves without a year range, after payments for
\* 2027 and 2021 were made in that order, has returned the range 2021 to 2027.
C19_Witness ==
    /\ last = "export_graves"
    /\ result.ok
    /\ Len(result.val.graves) = 2
    /\ result.val.start_year = 2021
    /\ result.val.end_year = 2027
    /\ \E p, q \in db.payments : p.id < q.id /\ p.year = 2027 /\ q.year = 2021

----------------------------------------------------------------------------
(* The list of blocks *)

\* C21: the list of blocks.  After any sequence of block creates, updates (a
\* change of code among them) and deletes, get_blocks returns every block of the
\* store exactly once, in ascending order of code.
C21_ListBlocks ==
    [][get_blocks =>
          /\ result'.ok
          /\ db' = db
          /\ Len(result'.val) = Cardinality(db.blocks)
          /\ SeqToSet(result'.val) = db.blocks
          /\ \A i, j \in 1..Len(result'.val) :
                i < j => BinaryLess(result'.val[i].code, result'.val[j].code)
      ]_vars

\* C21 happens: block 1 was created, block 2 was created later, and the list has
\* block 2 first, its code A before the code B of block 1.
C21_Witness ==
    /\ last = "get_blocks"
    /\ result.ok
    /\ Len(result.val) = 2
    /\ result.val[1].id = 2
    /\ result.val[1].code = <<"A">>
    /\ result.val[2].id = 1
    /\ result.val[2].code = <<"B">>

----------------------------------------------------------------------------
(* Deleting a block no grave is in; the statistics of a missing block *)

\* C27: deleting a block.  When no grave references id, delete_block(id)
\* succeeds and changes nothing but that block: get_block_by_id(id) then returns
\* absence, and every other block, every grave, heir, payment and the settings
\* are as before.  When no block has that id the call still succeeds and the
\* store is unchanged.
C27_DeleteBlock ==
    [][\A id \in BlockIds :
          (delete_block(id) /\ GravesIn(db, id) = {}) =>
              /\ result' = Ok(TRUE)
              /\ Database_get_block_by_id(db', id) = Ok(None)
              /\ db'.blocks = {b \in db.blocks : b.id # id}
              /\ \A table \in DOMAIN db \ {"blocks"} : db'[table] = db[table]
              /\ (id \notin Ids(db.blocks)) => db' = db
      ]_vars

\* C27 happens: a block without graves was deleted while the other block, its
\* grave, the grave's heir and payment stayed; then the same id, now of no block,
\* was deleted again and the call succeeded.
C27_Witness ==
    /\ last = "delete_block"
    /\ result = Ok(TRUE)
    /\ Cardinality(db.blocks) = 1
    /\ db.seq.blocks = 2
    /\ db.graves # {}
    /\ db.heirs # {}
    /\ db.payments # {}

\* C27 happens for an id no block has: the store had a block, the delete of
\* another id succeeded, and the block is still there.
C27_WitnessMissing ==
    /\ last = "delete_block"
    /\ result = Ok(TRUE)
    /\ Cardinality(db.blocks) = 1
    /\ db.seq.blocks = 1

\* C28: the statistics of a missing block.  For an id no block has,
\* get_block_stats returns an error and never a result, and leaves the store
\* unchanged.
C28_StatsOfMissingBlock ==
    [][\A id \in BlockIds :
          (get_block_stats(id) /\ id \notin Ids(db.blocks)) =>
              /\ ~result'.ok
              /\ result'.err = "Failed to get block capacity"
              /\ db' = db
      ]_vars

\* C28 happens: the statistics of a deleted block were asked for, on a store
\* that still has a block.
C28_Witness ==
    /\ last = "get_block_stats"
    /\ ~result.ok
    /\ db.seq.blocks = 2
    /\ Cardinality(db.blocks) = 1

----------------------------------------------------------------------------
(* Edits of an heir *)

InitHeirEdits == Started(WithHeirs)

\* The caller edits heirs, also under an id no heir has, and reads them back.
NextHeirEdits ==
    \/ \E id \in RowTargets, heir \in HeirUpdates : update_heir(id, heir)
    \/ \E g \in GraveIds : get_heirs_by_grave(g)

SpecHeirEdits == InitHeirEdits /\ [][NextHeirEdits]_vars

\* The heirs of a table as get_heirs_by_grave returns them.
AsHeirs(rows) == [q \in rows |-> HeirOf(q)]

\* C26: the partial update of an heir.  update_heir(id, request) changes exactly
\* the fields the request sets among full_name, phone_number, relationship,
\* address and is_primary: an unset is_primary keeps the flag, a set one is read
\* back as the boolean sent.  It never changes grave_id, order_number or any
\* other stored field of the heir, nor any other heir or any other table.
C26_UpdateHeir ==
    [][\A id \in RowTargets, heir \in HeirUpdates :
          update_heir(id, heir) =>
              /\ result' = Ok(TRUE)
              /\ UpdatedTable(db.heirs, db'.heirs, id, heir, AsHeirs(db'.heirs))
              /\ \A h \in db.heirs : \E q \in db'.heirs :
                    /\ q.id = h.id
                    /\ q.grave_id = h.grave_id
                    /\ q.order_number = h.order_number
                    /\ (h.id = id /\ is_none(heir.is_primary)) =>
                          q.is_primary = h.is_primary
                    /\ (h.id = id /\ is_some(heir.is_primary)) =>
                          q.is_primary = (IF heir.is_primary[1] THEN 1 ELSE 0)
              /\ OthersKept("heirs")
      ]_vars

\* C26 happens: heir 1 was made primary and renamed by two calls, the second of
\* which left the other's field as it was; its grave and order are those it was
\* created with, and heir 2 is as it was created.
C26_Witness ==
    /\ last = "update_heir"
    /\ result = Ok(TRUE)
    /\ \E h \in db.heirs, w \in WithHeirs.heirs :
          /\ h.id = 1
          /\ w.id = 1
          /\ h.is_primary = 1
          /\ w.is_primary = 0
          /\ h.full_name = "Ben"
          /\ w.full_name # "Ben"
          /\ h.grave_id = w.grave_id
          /\ h.order_number = w.order_number
          /\ h.address = w.address
    /\ \E h \in db.heirs : h.id = 2 /\ h \in WithHeirs.heirs

----------------------------------------------------------------------------
(* The listing of graves *)

InitSearch == Started(WithGraves)

\* The texts a caller searches for: none, a text both graves hold, the lower-case
\* of a letter they hold in upper case, and an underscore, which no grave holds.
SearchAsked == {None, Some(<<"b">>), Some(<<"a">>), Some(<<"_">>)}

BlockAsked == {None, Some(1), Some(MaxBlocks + 1)}

\* The caller adds, moves and deletes graves while the clock runs, and lists.
NextSearch ==
    \/ Tick
    \/ \E b \in BlockIds :
          /\ db.seq.graves < MaxListed
          /\ create_grave_with_heirs([grave |-> NamedGraveRequest(<<"A">>, b), heirs |-> <<>>])
    \/ \E id \in GraveIds, b \in BlockIds : update_grave(id, UpdateGraveRequest(Some(b)))
    \/ \E id \in GraveIds : delete_grave(id)
    \/ \E search \in SearchAsked, block_id \in BlockAsked, limit \in {1, 2}, offset \in {0, 1} :
          get_graves(search, block_id, limit, offset)

SpecSearch == InitSearch /\ [][NextSearch]_vars

\* s is a substring of text.
Substring(s, text) ==
    \E i \in 0..(Len(text) - Len(s)) : SubSeq(text, i + 1, i + Len(s)) = s

\* The graves of d that hold the text, when one is given, in deceased_name or in
\* number, and are in the block, when one is given.
Qualifying(d, search, block_id) ==
    {g \in d.graves :
        /\ is_some(search) =>
              Substring(search[1], g.deceased_name) \/ Substring(search[1], g.number)
        /\ is_some(block_id) => g.block_id = block_id[1]}

\* rows is a page of `qualifying`: only graves of that set, none twice, each with
\* the code and annual_fee of its block, later creation first, at most `limit`
\* rows, the first of them with at most `offset` qualifying graves created after
\* it and, unless the set ends there, `limit` of them.
PageOf(rows, d, qualifying, limit, offset) ==
    /\ \A i \in 1..Len(rows) :
          \E g \in qualifying, b \in d.blocks :
              /\ rows[i].id = g.id
              /\ rows[i].deceased_name = g.deceased_name
              /\ rows[i].number = g.number
              /\ rows[i].block_id = g.block_id
              /\ b.id = g.block_id
              /\ rows[i].code = b.code
              /\ rows[i].annual_fee = b.annual_fee
    /\ \A i, j \in 1..Len(rows) :
          i < j => rows[i].id # rows[j].id /\ rows[i].created_at >= rows[j].created_at
    /\ Len(rows) <= limit
    /\ Len(rows) = IF Cardinality(qualifying) - offset < 0 THEN 0
                   ELSE IF Cardinality(qualifying) - offset < limit
                        THEN Cardinality(qualifying) - offset
                        ELSE limit
    /\ rows # <<>> =>
          Cardinality({g \in qualifying : g.created_at > rows[1].created_at}) <= offset

\* C25 as claimed: the listing of graves.  get_graves(search, block_id, limit,
\* offset) returns only graves that satisfy the filter (search, when given, is a
\* substring of deceased_name or of number; block_id, when given, is the grave's
\* block_id; every grave when neither is given), each with the code and
\* annual_fee of its block, ordered by creation time descending, at most limit of
\* them starting at position offset of that order.
C25_ListGraves ==
    [][\A search \in SearchAsked, block_id \in BlockAsked, limit \in {1, 2}, offset \in {0, 1} :
          get_graves(search, block_id, limit, offset) =>
              /\ result'.ok
              /\ db' = db
              /\ PageOf(result'.val, db, Qualifying(db, search, block_id), limit, offset)
      ]_vars

----------------------------------------------------------------------------
(* References between the tables *)

InitIntegrity == Started(WithHeirs)

\* The caller sends every command that writes a reference or deletes a row that
\* is referred to, also with ids of rows that do not exist.
NextIntegrity ==
    \/ \E b \in 1..(MaxBlocks + 1) :
          /\ db.seq.graves <= MaxGraves
          /\ db.seq.heirs < MaxHeirs
          /\ create_grave_with_heirs([grave |-> CreateGraveRequest(b), heirs |-> <<Ann>>])
    \/ \E id \in GraveTargets, b \in 1..(MaxBlocks + 1) :
          update_grave(id, UpdateGraveRequest(Some(b)))
    \/ \E g \in GraveTargets :
          /\ db.seq.heirs < MaxHeirs
          /\ create_heir(CreateHeirRequest(g, 1))
    \/ \E g \in GraveTargets :
          /\ db.seq.payments < MaxPayments
          /\ create_payment(CreatePaymentRequest(g, 2024))
    \/ \E g \in GraveTargets :
          /\ db.seq.heirs < MaxHeirs
          /\ update_grave_heirs(g, <<Ann>>)
    \/ \E id \in 1..(MaxBlocks + 1) : delete_block(id)
    \/ \E id \in GraveTargets : delete_grave(id)

SpecIntegrity == InitIntegrity /\ [][NextIntegrity]_vars

\* C24: referential integrity.  After any sequence of commands executed one at a
\* time, every grave's block_id is the id of a block of the store, and every
\* heir's and every payment's grave_id is the id of a grave of the store.
C24_ReferentialIntegrity ==
    /\ \A g \in db.graves : \E b \in db.blocks : b.id = g.block_id
    /\ \A h \in db.heirs : \E g \in db.graves : g.id = h.grave_id
    /\ \A p \in db.payments : \E g \in db.graves : g.id = p.grave_id

\* C24 happens: a grave with an heir and a payment was deleted, the block it was
\* in was deleted after it, and the move of the remaining grave into that block
\* was refused; the remaining grave still has its heir and a payment.
C24_Witness ==
    /\ last = "update_grave"
    /\ ~result.ok
    /\ result.cause = "FOREIGN KEY constraint failed"
    /\ Cardinality(db.blocks) = 1
    /\ Cardinality(db.graves) = 1
    /\ issued.heirs > Cardinality(db.heirs)
    /\ issued.payments = MaxPayments
    /\ Cardinality(db.payments) = 1
    /\ db.heirs # {}

----------------------------------------------------------------------------
(* Commands of several statements that fail partway *)

InitPartial == Started(WithHeirs)

\* The lists sent: one heir, two heirs.
PartialLists == {<<Ann>>, <<Ann, Ben>>}

\* The statement the store answers with an error: none, or one of the up to three
\* statements of a command.
Failing == 0..3

\* The caller replaces the heirs of a grave and creates graves with heirs, also
\* for a grave or a block that does not exist, on a store that may answer one
\* statement of the command with an error; and reads the heirs back.
NextPartial ==
    \/ \E g \in GraveTargets, heirs \in PartialLists, failing \in Failing :
          /\ db.seq.heirs + Len(heirs) <= MaxHeirs
          /\ update_grave_heirs_io(g, heirs, failing)
    \/ \E b \in {1, MaxBlocks + 1}, heirs \in PartialLists, failing \in Failing :
          /\ db.seq.graves <= MaxGraves
          /\ db.seq.heirs + Len(heirs) <= MaxHeirs
          /\ create_grave_with_heirs_io([grave |-> CreateGraveRequest(b), heirs |-> heirs],
                                        failing)
    \/ \E g \in GraveTargets : get_heirs_by_grave(g)
    \/ \E id \in HeirIds : delete_heir(id)

SpecPartial == InitPartial /\ [][NextPartial]_vars

\* The heirs of grave g in d are the first n entries of the list, inserted in
\* list order with ids no heir of `before` has.
FirstHeirs(d, before, g, heirs, n) ==
    /\ Cardinality(HeirsOf(d, g)) = n
    /\ \A h \in HeirsOf(d, g) : \A k \in before.heirs : k.id # h.id
    /\ \A i \in 1..n :
          \E h \in HeirsOf(d, g) :
              /\ Cardinality({x \in HeirsOf(d, g) : x.id < h.id}) = i - 1
              /\ StoredAs(HeirOf(h), heirs[i], g)

\* C22: replacing heirs is not atomic.  update_grave_heirs deletes the old heirs
\* of the grave before it inserts a new one: when the insert of the k-th new heir
\* fails, the command returns an error and the grave is left with exactly the
\* first k-1 new heirs and none of its old heirs; when the delete fails, no heir
\* is inserted and the old heirs remain.
C22_ReplaceHeirsNotAtomic ==
    [][\A g \in GraveTargets, heirs \in PartialLists, failing \in Failing :
          update_grave_heirs_io(g, heirs, failing) =>
              LET k == IF g \notin Ids(db.graves) THEN 1 ELSE failing - 1
              IN  /\ failing = 1 =>
                        /\ ~result'.ok
                        /\ result'.err = "Failed to delete heirs"
                        /\ db' = db
                  /\ (failing # 1 /\ k \in 1..Len(heirs)) =>
                        /\ ~result'.ok
                        /\ result'.err = "Failed to create heir"
                        /\ FirstHeirs(db', db, g, heirs, k - 1)
                        /\ {h \in db'.heirs : h.grave_id # g} = {h \in db.heirs : h.grave_id # g}
                        /\ \A table \in SchemaTables \ {"heirs"} : db'[table] = db[table]
                  /\ (failing # 1 /\ k \notin 1..Len(heirs)) => result'.ok
      ]_vars

\* C22 happens: the insert of the second of two new heirs of grave 1 failed; the
\* grave's old heir 1 is gone and its only heir is the first of the list, Ann
\* with order number 2, under the id 3.
C22_Witness ==
    /\ last = "update_grave_heirs"
    /\ ~result.ok
    /\ result.err = "Failed to create heir"
    /\ Cardinality(HeirsOf(db, 1)) = 1
    /\ \E h \in HeirsOf(db, 1) : h.id = 3 /\ h.full_name = "Ann" /\ h.order_number = 2
    /\ Cardinality(HeirsOf(db, 2)) = 1

\* C23: creating a grave with heirs is not atomic.  When the insert of the grave
\* fails, no heir is inserted and the store is unchanged; when the insert of the
\* k-th heir fails, the command returns an error and no grave id, while the new
\* grave and its first k-1 heirs remain in the store (an heir-less grave for
\* k = 1).
C23_CreateGraveNotAtomic ==
    [][\A b \in {1, MaxBlocks + 1}, heirs \in PartialLists, failing \in Failing :
          create_grave_with_heirs_io([grave |-> CreateGraveRequest(b), heirs |-> heirs],
                                     failing) =>
              LET k == failing - 1
                  id == db.seq.graves + 1
              IN  /\ (failing = 1 \/ b \notin Ids(db.blocks)) =>
                        /\ ~result'.ok
                        /\ result'.err = "Failed to create grave"
                        /\ db' = db
                  /\ (b \in Ids(db.blocks) /\ k \in 1..Len(heirs)) =>
                        /\ ~result'.ok
                        /\ result'.err = "Failed to create heir"
                        /\ db.graves \subseteq db'.graves
                        /\ \E g \in db'.graves :
                              /\ g.id = id
                              /\ g.block_id = b
                              /\ db'.graves \ db.graves = {g}
                        /\ \A g \in db.graves : g.id # id
                        /\ FirstHeirs(db', db, id, heirs, k - 1)
                        /\ db.heirs \subseteq db'.heirs
                        /\ db'.blocks = db.blocks
                        /\ db'.payments = db.payments
                  /\ (b \in Ids(db.blocks) /\ failing # 1 /\ k \notin 1..Len(heirs)) =>
                        result' = Ok(id)
      ]_vars

\* C23 happens: the insert of the second heir of a new grave failed; the command
\* returned the error, and grave 3 is in the store with the first heir of the list.
C23_Witness ==
    /\ last = "create_grave_with_heirs"
    /\ ~result.ok
    /\ result.err = "Failed to create heir"
    /\ \E g \in db.graves : g.id = 3
    /\ Cardinality(HeirsOf(db, 3)) = 1
    /\ \E h \in HeirsOf(db, 3) : h.full_name = "Ann"

\* C23 happens with k = 1: the insert of the first heir failed and grave 3 is in
\* the store without an heir.
C23_WitnessHeirless ==
    /\ last = "create_grave_with_heirs"
    /\ ~result.ok
    /\ result.err = "Failed to create heir"
    /\ \E g \in db.graves : g.id = 3
    /\ HeirsOf(db, 3) = {}

====
